---- MODULE Spec2Model ----
(***************************************************************************)
(* Model of the temporal analytics of the habit tracker:                   *)
(*   src/src/utils/dateUtils.ts  (calendar utilities, getCompletionRate,   *)
(*                                calculateStreak, calculateBestStreak,    *)
(*                                updateHabitStreaks)                      *)
(*                                                                         *)
(* Representation.                                                         *)
(*  - A JavaScript Date is an integer: the number of hours since           *)
(*    1970-01-01T00:00 local time.  The local zone has a fixed offset (no  *)
(*    daylight-saving shift), so a calendar day is always HoursPerDay      *)
(*    hours and the clock resolution is one hour.                          *)
(*  - A "YYYY-MM-DD" string is the tuple <<year, month, day>> of its three *)
(*    zero-padded fixed-width fields; string comparison is the             *)
(*    lexicographic comparison of the fields.                              *)
(*  - An optional argument (selectedDays?, targetDate?) is an Option       *)
(*    record: Undefined or Some(v).                                        *)
(***************************************************************************)
EXTENDS Integers, Sequences, FiniteSets, TLC

\* ------------------------------------------------------------------------
\* Optional values
\* ------------------------------------------------------------------------
Undefined == [some |-> FALSE, val |-> <<>>]

Some(v) == [some |-> TRUE, val |-> v]

\* Array.prototype.includes
Includes(arr, x) == \E i \in 1..Len(arr) : arr[i] = x

Max(a, b) == IF a >= b THEN a ELSE b

\* ------------------------------------------------------------------------
\* The JavaScript Date object (local time, fixed offset)
\* ------------------------------------------------------------------------
\* 24 * 60 * 60 * 1000 milliseconds, in the model's clock unit (one hour)
HoursPerDay == 24

\* Days from 1970-01-01 to the civil date y-m-d (proleptic Gregorian calendar).
DaysFromCivil(y, m, d) ==
    LET yy  == IF m <= 2 THEN y - 1 ELSE y
        era == yy \div 400
        yoe == yy - era * 400
        mp  == IF m > 2 THEN m - 3 ELSE m + 9
        doy == (153 * mp + 2) \div 5 + d - 1
        doe == yoe * 365 + yoe \div 4 - yoe \div 100 + doy
    IN  era * 146097 + doe - 719468

\* The civil date <<y, m, d>> of day number n (days since 1970-01-01).
CivilFromDays(n) ==
    LET z   == n + 719468
        era == z \div 146097
        doe == z - era * 146097
        yoe == (doe - doe \div 1460 + doe \div 36524 - doe \div 146096) \div 365
        doy == doe - (365 * yoe + yoe \div 4 - yoe \div 100)
        mp  == (5 * doy + 2) \div 153
        d   == doy - (153 * mp + 2) \div 5 + 1
        m   == IF mp < 10 THEN mp + 3 ELSE mp - 9
        y   == yoe + era * 400 + (IF m <= 2 THEN 1 ELSE 0)
    IN  <<y, m, d>>

\* Date.prototype.getFullYear / getMonth (0-based) / getDate / getDay (0 = Sunday)
getFullYear(date) == CivilFromDays(date \div HoursPerDay)[1]

getMonth(date) == CivilFromDays(date \div HoursPerDay)[2] - 1

getDate(date) == CivilFromDays(date \div HoursPerDay)[3]

\* 1970-01-01 was a Thursday (4)
getDay(date) == ((date \div HoursPerDay) + 4) % 7

\* Date.prototype.setDate(n): the day of the month becomes n (rolling over month
\* ends when n is outside the month), the time of day is kept.
setDate(date, n) == date + (n - getDate(date)) * HoursPerDay

\* new Date(year, month, day) with a 0-based month: local midnight of that day
NewDate(year, month, day) == DaysFromCivil(year, month + 1, day) * HoursPerDay

\* new Date(dateString + 'T00:00:00'): local midnight of the day the string names
ParseLocal(dateString) ==
    DaysFromCivil(dateString[1], dateString[2], dateString[3]) * HoursPerDay

\* String.prototype.localeCompare on two "YYYY-MM-DD" strings: -1, 0 or 1
localeCompare(a, b) ==
    IF a[1] # b[1] THEN (IF a[1] < b[1] THEN -1 ELSE 1)
    ELSE IF a[2] # b[2] THEN (IF a[2] < b[2] THEN -1 ELSE 1)
    ELSE IF a[3] # b[3] THEN (IF a[3] < b[3] THEN -1 ELSE 1)
    ELSE 0

\* The < operator on two date strings (useHabits: date < habit.createdDate)
StrLess(a, b) == localeCompare(a, b) < 0

\* The two comparators of the source: (a, b) => a.localeCompare(b), ascending,
\* and (a, b) => b.localeCompare(a), descending.
Compare(order, a, b) ==
    IF order = "ascending" THEN localeCompare(a, b) ELSE localeCompare(b, a)

\* Array.prototype.sort(compare) is a stable sort; it is modelled as a merge
\* sort that takes from the left run unless the right element is strictly
\* smaller.  The merge moves a whole block at a time: the leading elements of the
\* right run that are strictly smaller than the head of the left run, or else
\* the leading elements of the left run that the head of the right run is not
\* strictly smaller than (both runs are sorted, so these are prefixes).
RECURSIVE Merge(_, _, _)
Merge(left, right, order) ==
    IF left = <<>> THEN right
    ELSE IF right = <<>> THEN left
    ELSE LET fromRight == Cardinality({ j \in 1..Len(right) :
                                          Compare(order, right[j], Head(left)) < 0 })
             fromLeft  == Cardinality({ i \in 1..Len(left) :
                                          Compare(order, Head(right), left[i]) >= 0 })
         IN  IF fromRight > 0
             THEN SubSeq(right, 1, fromRight)
                  \o Merge(left, SubSeq(right, fromRight + 1, Len(right)), order)
             ELSE SubSeq(left, 1, fromLeft)
                  \o Merge(SubSeq(left, fromLeft + 1, Len(left)), right, order)

\* [...arr].sort(compare)
RECURSIVE Sort(_, _)
Sort(arr, order) ==
    IF Len(arr) <= 1 THEN arr
    ELSE LET mid == Len(arr) \div 2
         IN  Merge(Sort(SubSeq(arr, 1, mid), order),
                   Sort(SubSeq(arr, mid + 1, Len(arr)), order), order)

\* ------------------------------------------------------------------------
\* dateUtils.ts: calendar utilities
\* ------------------------------------------------------------------------
formatDate(date) == <<getFullYear(date), getMonth(date) + 1, getDate(date)>>

\* getTodayString() at the wall-clock instant now
getTodayString(now) == formatDate(now)

\* getWeekStart with the Sunday case lost: diff is always getDate() - day + 1
getWeekStart_SundayCaseLost(date) == setDate(date, getDate(date) - getDay(date) + 1)

getWeekStart(date) ==
    LET day  == getDay(date)
        diff == getDate(date) - day + (IF day = 0 THEN -6 ELSE 1)
    IN  setDate(date, diff)

getMonthStart(date) == NewDate(getFullYear(date), getMonth(date), 1)

\* getDateRange(startDate, endDate): the while loop pushes formatDate(current)
\* and moves current one day on as long as current <= endDate; element i is the
\* date after i - 1 such moves
getDateRange(startDate, endDate) ==
    IF startDate <= endDate
    THEN [ i \in 1..((endDate - startDate) \div HoursPerDay + 1) |->
             formatDate(setDate(startDate, getDate(startDate) + (i - 1))) ]
    ELSE <<>>

dayNames ==
    <<"sunday", "monday", "tuesday", "wednesday", "thursday", "friday", "saturday">>

\* dayNames[date.getDay()]
DayName(date) == dayNames[getDay(date) + 1]

\* Math.round(a / b) for b > 0: the nearest integer, halves rounded up
MathRound(a, b) == (2 * a + b) \div (2 * b)

\* !selectedDays || selectedDays.length === 0
IsDaily(selectedDays) == (~selectedDays.some) \/ Len(selectedDays.val) = 0

\* ------------------------------------------------------------------------
\* calculateStreak
\* ------------------------------------------------------------------------
\* Safety check of the scheduled walk: 365 days before Date.now()
SafetyDays == 365

\* The daily branch's for loop over sortedCompletions (index i, 1-based)
RECURSIVE DailyStreakLoop(_, _, _, _)
DailyStreakLoop(sortedCompletions, i, streak, currentDate) ==
    IF i > Len(sortedCompletions) THEN streak
    ELSE IF sortedCompletions[i] = formatDate(currentDate)
         THEN DailyStreakLoop(sortedCompletions, i + 1, streak + 1,
                              setDate(currentDate, getDate(currentDate) - 1))
         ELSE streak

\* ScheduledStreakIteration with the break lost: a scheduled day that is not
\* completed is passed over like an unscheduled one
ScheduledStreakIteration_MissedSkipped(sortedCompletions, selectedDays, currentDate, now) ==
    [count |-> IF /\ Includes(selectedDays, DayName(currentDate))
                  /\ Includes(sortedCompletions, formatDate(currentDate))
               THEN 1 ELSE 0,
     stop  |-> currentDate - HoursPerDay < now - SafetyDays * HoursPerDay]

\* One iteration of the scheduled branch's while (true) loop, the one that
\* examines currentDate: how much it adds to streak and whether it leaves the
\* loop (the break of an uncompleted scheduled day, or the safety check after
\* currentDate has moved one day back).
ScheduledStreakIteration(sortedCompletions, selectedDays, currentDate, now) ==
    LET currentDateString == formatDate(currentDate)
        currentDayName    == DayName(currentDate)
    IN  IF Includes(selectedDays, currentDayName)
        THEN IF Includes(sortedCompletions, currentDateString)
             THEN [count |-> 1,
                   stop  |-> currentDate - HoursPerDay < now - SafetyDays * HoursPerDay]
             ELSE [count |-> 0, stop |-> TRUE]
        ELSE [count |-> 0,
              stop  |-> currentDate - HoursPerDay < now - SafetyDays * HoursPerDay]

\* The iterations first..last of the loop, in order, starting at startDate:
\* iteration i examines the date i days before startDate (currentDate moves back
\* one day per iteration), and no iteration runs after one that leaves the loop.
\* The range is evaluated by halves so that the evaluation depth stays logarithmic.
RECURSIVE ScheduledStreakIterations(_, _, _, _, _, _)
ScheduledStreakIterations(sortedCompletions, selectedDays, startDate, now, first, last) ==
    IF first = last
    THEN ScheduledStreakIteration(sortedCompletions, selectedDays,
                                  startDate - first * HoursPerDay, now)
    ELSE LET mid   == (first + last) \div 2
             early == ScheduledStreakIterations(sortedCompletions, selectedDays,
                                                startDate, now, first, mid)
         IN  IF early.stop THEN early
             ELSE LET late == ScheduledStreakIterations(sortedCompletions, selectedDays,
                                                        startDate, now, mid + 1, last)
                  IN  [count |-> early.count + late.count, stop |-> late.stop]

\* The scheduled branch's while (true) loop, entered with streak and currentDate.
\* The safety check leaves the loop at the latest after the iteration whose
\* date is the last one not before now - SafetyDays days.
ScheduledStreakLoop(sortedCompletions, selectedDays, streak, currentDate, now) ==
    LET slack == currentDate - (now - SafetyDays * HoursPerDay)
        last  == IF slack < 0 THEN 0 ELSE slack \div HoursPerDay
    IN  streak + ScheduledStreakIterations(sortedCompletions, selectedDays,
                                           currentDate, now, 0, last).count

\* calculateStreak(completions, selectedDays?, targetDate?) called at instant now
calculateStreak(completions, selectedDays, targetDate, now) ==
    IF Len(completions) = 0 THEN 0
    ELSE
    LET sortedCompletions == Sort(completions, "descending")
        today            == IF targetDate.some THEN targetDate.val ELSE getTodayString(now)
        todayDate        == ParseLocal(today)
        yesterday        == setDate(todayDate, getDate(todayDate) - 1)
        isTodayCompleted == Includes(sortedCompletions, today)
    IN  IF IsDaily(selectedDays)
        THEN DailyStreakLoop(sortedCompletions, 1,
                             IF isTodayCompleted THEN 1 ELSE 0, yesterday)
        ELSE LET isTodayScheduled == Includes(selectedDays.val, DayName(todayDate))
             IN  ScheduledStreakLoop(sortedCompletions, selectedDays.val,
                                     IF isTodayScheduled /\ isTodayCompleted THEN 1 ELSE 0,
                                     yesterday, now)

\* ------------------------------------------------------------------------
\* calculateBestStreak
\* ------------------------------------------------------------------------
\* The loop variables of both branches before the first completion; last is
\* previousDate (daily branch) or lastScheduledDate (scheduled branch), null at first
BestStart == [bestStreak |-> 0, currentStreak |-> 0, last |-> Undefined]

\* DailyBestStep with the Math.max of the gap branch lost: a run that ends at a
\* gap is forgotten
DailyBestStep_RunForgotten(st, completion) ==
    LET currentDate == ParseLocal(completion)
    IN  IF ~st.last.some
        THEN [st EXCEPT !.currentStreak = 1, !.last = Some(currentDate)]
        ELSE IF MathRound(currentDate - st.last.val, HoursPerDay) = 1
        THEN [st EXCEPT !.currentStreak = st.currentStreak + 1,
                        !.last = Some(currentDate)]
        ELSE [st EXCEPT !.currentStreak = 1, !.last = Some(currentDate)]

\* The body of the daily branch's for loop, applied to one completion
DailyBestStep(st, completion) ==
    LET currentDate == ParseLocal(completion)
    IN  IF ~st.last.some
        THEN [st EXCEPT !.currentStreak = 1, !.last = Some(currentDate)]
        ELSE LET dayDifference == MathRound(currentDate - st.last.val, HoursPerDay)
             IN  IF dayDifference = 1
                 THEN [st EXCEPT !.currentStreak = st.currentStreak + 1,
                                 !.last = Some(currentDate)]
                 ELSE [bestStreak    |-> Max(st.bestStreak, st.currentStreak),
                       currentStreak |-> 1,
                       last          |-> Some(currentDate)]

\* The daily branch's for loop from index i on, and the final Math.max
RECURSIVE DailyBestLoop(_, _, _)
DailyBestLoop(sortedCompletions, i, st) ==
    IF i > Len(sortedCompletions) THEN Max(st.bestStreak, st.currentStreak)
    ELSE DailyBestLoop(sortedCompletions, i + 1,
                       DailyBestStep(st, sortedCompletions[i]))

\* NextExpectedDate with the search for the next scheduled day lost: the day
\* after lastScheduledDate is expected
NextExpectedDate_NextCalendarDay(expectedDate, currentDate, selectedDays) ==
    expectedDate

\* The inner while loop: the next scheduled day after lastScheduledDate, not
\* searched beyond currentDate
RECURSIVE NextExpectedDate(_, _, _)
NextExpectedDate(expectedDate, currentDate, selectedDays) ==
    IF expectedDate <= currentDate /\ ~Includes(selectedDays, DayName(expectedDate))
    THEN NextExpectedDate(setDate(expectedDate, getDate(expectedDate) + 1),
                          currentDate, selectedDays)
    ELSE expectedDate

\* The body of the scheduled branch's for loop, applied to one completion
ScheduledBestStep(st, completion, selectedDays) ==
    LET currentDate == ParseLocal(completion)
    IN  IF ~Includes(selectedDays, DayName(currentDate)) THEN st
        ELSE IF ~st.last.some
        THEN [st EXCEPT !.currentStreak = 1, !.last = Some(currentDate)]
        ELSE LET first        == setDate(st.last.val, getDate(st.last.val) + 1)
                 expectedDate == NextExpectedDate(first, currentDate, selectedDays)
             IN  IF formatDate(expectedDate) = completion
                 THEN [st EXCEPT !.currentStreak = st.currentStreak + 1,
                                 !.last = Some(currentDate)]
                 ELSE [bestStreak    |-> Max(st.bestStreak, st.currentStreak),
                       currentStreak |-> 1,
                       last          |-> Some(currentDate)]

\* ScheduledBestLoop with the final Math.max lost: the run still open at the
\* end of the pass is not counted
RECURSIVE ScheduledBestLoop_OpenRunLost(_, _, _, _)
ScheduledBestLoop_OpenRunLost(sortedCompletions, selectedDays, i, st) ==
    IF i > Len(sortedCompletions) THEN st.bestStreak
    ELSE ScheduledBestLoop_OpenRunLost(sortedCompletions, selectedDays, i + 1,
                                       ScheduledBestStep(st, sortedCompletions[i],
                                                         selectedDays))

\* The scheduled branch's for loop from index i on, and the final Math.max
RECURSIVE ScheduledBestLoop(_, _, _, _)
ScheduledBestLoop(sortedCompletions, selectedDays, i, st) ==
    IF i > Len(sortedCompletions) THEN Max(st.bestStreak, st.currentStreak)
    ELSE ScheduledBestLoop(sortedCompletions, selectedDays, i + 1,
                           ScheduledBestStep(st, sortedCompletions[i], selectedDays))

\* calculateBestStreak with calculateStreak's comparator: newest first
calculateBestStreak_NewestFirst(completions, selectedDays) ==
    IF Len(completions) = 0 THEN 0
    ELSE
    LET sortedCompletions == Sort(completions, "descending")
    IN  IF IsDaily(selectedDays)
        THEN DailyBestLoop(sortedCompletions, 1, BestStart)
        ELSE ScheduledBestLoop(sortedCompletions, selectedDays.val, 1, BestStart)

\* calculateBestStreak(completions, selectedDays?)
calculateBestStreak(completions, selectedDays) ==
    IF Len(completions) = 0 THEN 0
    ELSE
    LET sortedCompletions == Sort(completions, "ascending")
    IN  IF IsDaily(selectedDays)
        THEN DailyBestLoop(sortedCompletions, 1, BestStart)
        ELSE ScheduledBestLoop(sortedCompletions, selectedDays.val, 1, BestStart)

\* updateHabitStreaks(habit) called at instant now
updateHabitStreaks(habit, now) ==
    LET currentStreak == calculateStreak(habit.completions, habit.selectedDays,
                                         Undefined, now)
        bestStreak    == Max(calculateBestStreak(habit.completions, habit.selectedDays),
                             currentStreak)
    IN  [habit EXCEPT !.currentStreak = currentStreak, !.bestStreak = bestStreak]

\* ------------------------------------------------------------------------
\* getCompletionRate
\* ------------------------------------------------------------------------
\* period: 'week' | 'month' | number
Week == [kind |-> "week", days |-> 0]

Month == [kind |-> "month", days |-> 0]

Days(n) == [kind |-> "number", days |-> n]

\* The start of the period at instant today
PeriodStart(period, today) ==
    IF period.kind = "week" THEN getWeekStart(today)
    ELSE IF period.kind = "month" THEN getMonthStart(today)
    ELSE today - (period.days - 1) * HoursPerDay

\* The schedule filter applied to one elapsed day
IsScheduledElapsed(habit, dateString) ==
    LET date    == ParseLocal(dateString)
        dayName == DayName(date)
    IN  IF IsDaily(habit.selectedDays) THEN TRUE
        ELSE Includes(habit.selectedDays.val, dayName)

\* EffectiveStartDate with the creation date ignored
EffectiveStartDate_PeriodStart(habit, startDate) == startDate

\* The later of the habit's creation date (parsed at local midnight) and the
\* period start
EffectiveStartDate(habit, startDate) ==
    LET habitCreatedDate == ParseLocal(habit.createdDate)
    IN  IF habitCreatedDate > startDate THEN habitCreatedDate ELSE startDate

\* EndDate without the optimistic rule: today is always included
EndDate_AlwaysToday(habit, now) == now

\* The optimistic end date: today when today is completed, else 24 hours earlier
EndDate(habit, now) ==
    LET todayString      == getTodayString(now)
        isTodayCompleted == Includes(habit.completions, todayString)
    IN  IF isTodayCompleted THEN now ELSE now - HoursPerDay

\* allElapsedDays.filter(...): the scheduled days among the elapsed ones
ScheduledElapsedDays(habit, effectiveStartDate, endDate) ==
    LET allElapsedDays   == getDateRange(effectiveStartDate, endDate)
        Keep(dateString) == IsScheduledElapsed(habit, dateString)
    IN  SelectSeq(allElapsedDays, Keep)

\* CompletedDays with the restriction to scheduled elapsed days lost
CompletedDays_AllCompletions(habit, scheduledElapsedDays) == Len(habit.completions)

\* habit.completions.filter(...).length: the completions on scheduled elapsed days
CompletedDays(habit, scheduledElapsedDays) ==
    LET OnElapsed(completion) == Includes(scheduledElapsedDays, completion)
    IN  Len(SelectSeq(habit.completions, OnElapsed))

\* The scheduled elapsed days getCompletionRate counts over
ScheduledElapsedOf(habit, period, now) ==
    ScheduledElapsedDays(habit, EffectiveStartDate(habit, PeriodStart(period, now)),
                         EndDate(habit, now))

\* NewHabitCase with only the count tested: any single counted completion
NewHabitCase_AnyOneCompletion(scheduledElapsedDays, todayString, completedDays) ==
    completedDays = 1

\* The condition of the new-habit special case
NewHabitCase(scheduledElapsedDays, todayString, completedDays) ==
    /\ Len(scheduledElapsedDays) = 1
    /\ scheduledElapsedDays[1] = todayString
    /\ completedDays = 1

\* getCompletionRate with 100 returned when no scheduled day has elapsed
getCompletionRate_NothingElapsedIsComplete(habit, period, now) ==
    LET scheduledElapsedDays == ScheduledElapsedOf(habit, period, now)
        completedDays        == CompletedDays(habit, scheduledElapsedDays)
    IN  IF Len(scheduledElapsedDays) = 0 THEN 100
        ELSE MathRound(completedDays * 100, Len(scheduledElapsedDays))

\* getCompletionRate(habit, period) called at instant now
getCompletionRate(habit, period, now) ==
    LET todayString          == getTodayString(now)
        scheduledElapsedDays == ScheduledElapsedOf(habit, period, now)
        completedDays        == CompletedDays(habit, scheduledElapsedDays)
    IN  IF Len(scheduledElapsedDays) = 0 THEN 0
        ELSE IF NewHabitCase(scheduledElapsedDays, todayString, completedDays)
        THEN 100
        ELSE IF Len(scheduledElapsedDays) > 0
        THEN MathRound(completedDays * 100, Len(scheduledElapsedDays))
        ELSE 0

\* ------------------------------------------------------------------------
\* State
\* ------------------------------------------------------------------------
VARIABLES
    now,         \* the wall clock: new Date() / Date.now(), in hours
    habit,       \* the Habit the functions are applied to
    targetDate,  \* calculateStreak's optional third argument
    period,      \* getCompletionRate's period argument
    pc,          \* "ready" before a function is applied, "done" after
    result,      \* the function applied and the value it returned
    habits,      \* useHabits: the habits state (useState<Habit[]>)
    error,       \* useHabits: the error state (null or a message)
    calls,       \* useHabits: the async calls awaiting their storage call
    store,       \* the storage collaborator: the habits and completions tables
    requests,    \* the number of storage calls made so far
    tasks,       \* App: the tasks state (useState<Task[]>)
    taskError,   \* App: the error state (null or a message)
    frame        \* the activation of calculateStreak that runs step by step

vars == <<now, habit, targetDate, period, pc, result, habits, error, calls, store, requests,
          tasks, taskError, frame>>

\* The state of the App component
appVars == <<tasks, taskError>>

\* No activation of calculateStreak
NoFrame == [at |-> "none"]

\* The state of the hook and of the store
hookVars == <<habits, error, calls, store, requests>>

\* useState<string | null>(null)
NoError == "null"

\* App as constructed (useState initial values)
AppInit ==
    /\ tasks = <<>>
    /\ taskError = NoError

\* The store with no habit, no completion row and no task
EmptyStore == [habits |-> <<>>, completions |-> <<>>, tasks |-> <<>>]

\* The hook as constructed (useState initial values) over an empty store
HookInit ==
    /\ habits = <<>>
    /\ error = NoError
    /\ calls = {}
    /\ store = EmptyStore
    /\ requests = 0

NoResult == [fn |-> "none", value |-> 0]

\* ------------------------------------------------------------------------
\* Inputs
\* ------------------------------------------------------------------------
\* Completions are drawn from the MaxBack days before today, today and tomorrow
MaxBack == 5

\* The periods given as a number of days are 1..MaxPeriod
MaxPeriod == 3

\* Monday 2024-04-29; the week from it runs into May, whose 1st is a Wednesday
FirstToday == DaysFromCivil(2024, 4, 29)

\* The current date ranges over the seven days of that week
Todays == FirstToday..(FirstToday + 6)

AllSevenDays ==
    <<"monday", "tuesday", "wednesday", "thursday", "friday", "saturday", "sunday">>

\* The schedules: absent, empty, every day, some days, and a corrupt one
Schedules ==
    { Undefined, Some(<<>>), Some(AllSevenDays),
      Some(<<"monday", "wednesday", "friday">>),
      Some(<<"saturday", "sunday">>),
      Some(<<"tuesday">>),
      Some(<<"funday">>) }

\* A set of day numbers as an array of date strings, oldest or newest first
Arrange(days, order) ==
    IF days = {} THEN <<>>
    ELSE LET Before(d) == { e \in days : IF order = "ascending" THEN e < d ELSE e > d }
         IN  [ i \in 1..Cardinality(days) |->
                 CivilFromDays(CHOOSE d \in days : Cardinality(Before(d)) = i - 1) ]

NewHabit(createdDay, selectedDays, completions) ==
    [ createdDate   |-> CivilFromDays(createdDay),
      selectedDays  |-> selectedDays,
      completions   |-> completions,
      currentStreak |-> 0,
      bestStreak    |-> 0 ]

\* The days completions are drawn from, around the day today
Window(today) == (today - MaxBack)..(today + 1)

\* A long unbroken run: the count scheduled days before today, step days apart
LongRun(today, step, count) == { today - 1 - step * k : k \in 0..(count - 1) }

\* Scenario 4 of the specification
Scenario4 == << <<2024, 1, 1>>, <<2024, 1, 2>>, <<2024, 1, 3>>, <<2024, 1, 10>> >>

\* ------------------------------------------------------------------------
\* The streak functions applied to drawn inputs
\* ------------------------------------------------------------------------
\* Every subset of the window around today, in either order, under every schedule
InitStreakWindow ==
    \E today \in Todays, selectedDays \in Schedules, order \in {"ascending", "descending"} :
      \E days \in SUBSET Window(today) :
        /\ now = today * HoursPerDay + 9
        /\ habit = NewHabit(today - MaxBack, selectedDays, Arrange(days, order))

\* Weekly runs that end at the safety bound of the scheduled walk or one week
\* before it, at midnight and later in the day, with and without today
InitStreakLongRun ==
    \E count \in {SafetyDays \div 7, SafetyDays \div 7 + 1}, hour \in {0, 9},
       withToday \in BOOLEAN, selectedDays \in {Some(<<"tuesday">>), Some(<<>>)} :
        LET today == FirstToday + 2
            days  == LongRun(today, 7, count) \cup (IF withToday THEN {today} ELSE {})
        IN  /\ now = today * HoursPerDay + hour
            /\ habit = NewHabit(today - 7 * count, selectedDays,
                                Arrange(days, "ascending"))

InitStreakScenario ==
    /\ now = (FirstToday + 2) * HoursPerDay + 9
    /\ habit = NewHabit(DaysFromCivil(2024, 1, 1), Some(<<>>), Scenario4)

\* A list that holds one of its dates twice, as two toggles of the same date
\* that both read the list before either update leave it (useHabits.ts:360, 396)
InitStreakDuplicate ==
    \E selectedDays \in Schedules, days \in SUBSET Window(FirstToday + 2) :
      \E again \in days :
        /\ Cardinality(days) <= 3
        /\ now = (FirstToday + 2) * HoursPerDay + 9
        /\ habit = NewHabit(FirstToday + 2 - MaxBack, selectedDays,
                            Append(Arrange(days, "ascending"), CivilFromDays(again)))

\* The days between the targetDate of a call and the wall-clock date of the call
ClockLags == {1, SafetyDays - 1, SafetyDays + 1}

\* calculateStreak given a targetDate that is not the wall-clock date: the call is
\* made lag days after targetDate (today = targetDate || getTodayString())
InitStreakTargetDate ==
    \E selectedDays \in Schedules, lag \in ClockLags :
      \E days \in SUBSET Window(FirstToday + 2) :
        /\ now = (FirstToday + 2 + lag) * HoursPerDay + 9
        /\ habit = NewHabit(FirstToday + 2 - MaxBack, selectedDays,
                            Arrange(days, "ascending"))
        /\ targetDate = Some(CivilFromDays(FirstToday + 2))

InitStreak ==
    /\ \/ /\ \/ InitStreakWindow
             \/ InitStreakLongRun
             \/ InitStreakScenario
             \/ InitStreakDuplicate
          /\ targetDate \in {Undefined, Some(getTodayString(now))}
       \/ InitStreakTargetDate
    /\ period = Week
    /\ pc = "ready"
    /\ result = NoResult
    /\ AppInit
    /\ frame = NoFrame
    /\ HookInit

CallCalculateStreak ==
    /\ pc = "ready"
    /\ result' = [fn    |-> "calculateStreak",
                  value |-> calculateStreak(habit.completions, habit.selectedDays,
                                            targetDate, now)]
    /\ pc' = "done"
    /\ UNCHANGED <<now, habit, targetDate, period, appVars, frame>>
    /\ UNCHANGED hookVars

CallCalculateBestStreak ==
    /\ pc = "ready"
    /\ result' = [fn    |-> "calculateBestStreak",
                  value |-> calculateBestStreak(habit.completions, habit.selectedDays)]
    /\ pc' = "done"
    /\ UNCHANGED <<now, habit, targetDate, period, appVars, frame>>
    /\ UNCHANGED hookVars

CallUpdateHabitStreaks ==
    /\ pc = "ready"
    /\ targetDate = Undefined
    /\ habit' = updateHabitStreaks(habit, now)
    /\ result' = [fn |-> "updateHabitStreaks", value |-> habit'.currentStreak]
    /\ pc' = "done"
    /\ UNCHANGED <<now, targetDate, period, appVars, frame>>
    /\ UNCHANGED hookVars

NextStreak ==
    \/ CallCalculateStreak
    \/ CallCalculateBestStreak
    \/ CallUpdateHabitStreaks

SpecStreak == InitStreak /\ [][NextStreak]_vars

\* ------------------------------------------------------------------------
\* getCompletionRate applied to drawn inputs
\* ------------------------------------------------------------------------
Periods == {Week, Month} \cup { Days(n) : n \in 1..MaxPeriod }

\* The habit was created long before the period, inside it, today or tomorrow
CreatedDays(today) == {today - 40, today - 2, today, today + 1}

\* Monday 2024-04-29, Wednesday 2024-05-01 (the 1st of the month), Saturday
\* 2024-05-04 and Sunday 2024-05-05
RateTodays == {FirstToday, FirstToday + 2, FirstToday + 5, FirstToday + 6}

\* The days the completions of a rated habit are drawn from
RateWindow(today) == (today - MaxBack + 1)..(today + 1)

InitRateWindow ==
    \E today \in RateTodays, selectedDays \in Schedules :
      \E days \in SUBSET RateWindow(today), createdDay \in CreatedDays(today) :
        /\ now = today * HoursPerDay + 9
        /\ habit = NewHabit(createdDay, selectedDays, Arrange(days, "ascending"))

\* A list that holds one of its dates twice, as two toggles of the same date
\* that both read the list before either update leave it (useHabits.ts:360, 396)
InitRateDuplicate ==
    \E today \in RateTodays, selectedDays \in Schedules :
      \E days \in SUBSET RateWindow(today) :
        \E again \in days :
          /\ Cardinality(days) <= 2
          /\ now = today * HoursPerDay + 9
          /\ habit = NewHabit(today - 40, selectedDays,
                              Append(Arrange(days, "ascending"), CivilFromDays(again)))

InitRate ==
    /\ InitRateWindow \/ InitRateDuplicate
    /\ period \in Periods
    /\ targetDate = Undefined
    /\ pc = "ready"
    /\ result = NoResult
    /\ AppInit
    /\ frame = NoFrame
    /\ HookInit

CallGetCompletionRate ==
    /\ pc = "ready"
    /\ result' = [fn    |-> "getCompletionRate",
                  value |-> getCompletionRate(habit, period, now)]
    /\ pc' = "done"
    /\ UNCHANGED <<now, habit, targetDate, period, appVars, frame>>
    /\ UNCHANGED hookVars

NextRate == CallGetCompletionRate

SpecRate == InitRate /\ [][NextRate]_vars

\* ------------------------------------------------------------------------
\* The consumers of a habit's schedule
\* ------------------------------------------------------------------------
\* A Habit of the hook's list: the habit with its id
WithId(h, id) ==
    [ id            |-> id,
      createdDate   |-> h.createdDate,
      selectedDays  |-> h.selectedDays,
      completions   |-> h.completions,
      currentStreak |-> h.currentStreak,
      bestStreak    |-> h.bestStreak ]

\* calculateStreak: whether the walk counts the date as a scheduled day (the daily
\* branch counts every day, the scheduled branch tests selectedDays.includes)
StreakIsScheduled(selectedDays, date) ==
    IF IsDaily(selectedDays) THEN TRUE
    ELSE Includes(selectedDays.val, DayName(date))

\* calculateBestStreak: whether the pass keeps a completion of the date (the daily
\* branch keeps every one, the scheduled branch skips unscheduled day names)
BestStreakIsScheduled(selectedDays, date) ==
    IF IsDaily(selectedDays) THEN TRUE
    ELSE ~(~Includes(selectedDays.val, DayName(date)))

\* CalendarView.getHabitsForDay(date, allHabits)
getHabitsForDay(date, allHabits) ==
    LET clickedDayName == DayName(date)
        dateString     == formatDate(date)
        Keep(h) == IF StrLess(dateString, h.createdDate) THEN FALSE
                   ELSE IF h.selectedDays.some /\ Includes(h.selectedDays.val, clickedDayName)
                   THEN TRUE
                   ELSE IF IsDaily(h.selectedDays) THEN TRUE
                   ELSE FALSE
    IN  SelectSeq(allHabits, Keep)

\* habitUtils.isCompletedToday(habit)
isCompletedToday(h, clock) == Includes(h.completions, getTodayString(clock))

\* useHabits.getTodayHabits(): the ids of the habits returned, in order, each
\* with its isCompletedToday flag
RECURSIVE TodayFlags(_, _)
TodayFlags(list, clock) ==
    IF list = <<>> THEN <<>>
    ELSE <<[id |-> Head(list).id, isCompletedToday |-> isCompletedToday(Head(list), clock)]>>
         \o TodayFlags(Tail(list), clock)

getTodayHabits(list, clock) ==
    LET todayName == DayName(clock)
        Keep(h)   == IF IsDaily(h.selectedDays) THEN TRUE
                     ELSE Includes(h.selectedDays.val, todayName)
    IN  TodayFlags(SelectSeq(list, Keep), clock)

\* HabitCard: habit.selectedDays?.includes(todayName) || false
isScheduledToday(h, clock) ==
    IF h.selectedDays.some THEN Includes(h.selectedDays.val, DayName(clock)) ELSE FALSE

\* The dates a calendar day is clicked on, around the day today
ClickedDays(today) == (today - 2)..(today + 2)

\* Two habits under any two schedules, the first created before every clicked
\* day and the second either before them or on the day today
InitSchedule ==
    \E today \in Todays, first \in Schedules, second \in Schedules, lag \in {0, 3} :
      LET createdDay == today - lag IN
        /\ now = today * HoursPerDay + 9
        /\ habit = NewHabit(today - 3, first, <<>>)
        /\ habits = << WithId(NewHabit(today - 3, first, <<>>), 1),
                       WithId(NewHabit(createdDay, second, <<>>), 2) >>
        /\ targetDate = Undefined
        /\ period = Week
        /\ pc = "ready"
        /\ result = NoResult
        /\ AppInit
        /\ frame = NoFrame
        /\ error = NoError
        /\ calls = {}
        /\ store = EmptyStore
        /\ requests = 0

\* The calendar asks for the habits of a clicked day
CallGetHabitsForDay ==
    /\ pc = "ready"
    /\ \E day \in ClickedDays(now \div HoursPerDay) :
          result' = [fn    |-> "getHabitsForDay",
                     value |-> [date   |-> day * HoursPerDay,
                                habits |-> getHabitsForDay(day * HoursPerDay, habits)]]
    /\ pc' = "done"
    /\ UNCHANGED <<now, habit, targetDate, period, appVars, frame>>
    /\ UNCHANGED hookVars

\* The today view asks for the habits of today
CallGetTodayHabits ==
    /\ pc = "ready"
    /\ result' = [fn |-> "getTodayHabits", value |-> getTodayHabits(habits, now)]
    /\ pc' = "done"
    /\ UNCHANGED <<now, habit, targetDate, period, appVars, frame>>
    /\ UNCHANGED hookVars

\* A HabitCard is rendered for one habit of the list
RenderHabitCard ==
    /\ pc = "ready"
    /\ \E i \in 1..Len(habits) :
          result' = [fn    |-> "HabitCard",
                     value |-> [id |-> habits[i].id,
                                isScheduledToday |-> isScheduledToday(habits[i], now)]]
    /\ pc' = "done"
    /\ UNCHANGED <<now, habit, targetDate, period, appVars, frame>>
    /\ UNCHANGED hookVars

NextSchedule ==
    \/ CallGetHabitsForDay
    \/ CallGetTodayHabits
    \/ RenderHabitCard

SpecSchedule == InitSchedule /\ [][NextSchedule]_vars

\* ------------------------------------------------------------------------
\* useHabits.ts: the hook over the storage collaborator
\* ------------------------------------------------------------------------
\* JSON.stringify of an array of strings: a text that parses back to the array
JSONstringify(arr) == [valid |-> TRUE, parsed |-> arr]

\* convertToHabit(habitRow, completions), called at instant clock
convertToHabit(habitRow, completions, clock) ==
    LET selectedDays ==
            IF habitRow.selected_days.some
            THEN IF habitRow.selected_days.val.valid
                 THEN habitRow.selected_days.val.parsed
                 ELSE AllSevenDays
            ELSE IF habitRow.target_frequency = "daily"
                 THEN AllSevenDays
                 ELSE <<"monday", "wednesday", "friday">>
        h == [ id            |-> habitRow.id,
               createdDate   |-> habitRow.created_date,
               selectedDays  |-> Some(selectedDays),
               completions   |-> completions,
               currentStreak |-> 0,
               bestStreak    |-> 0 ]
    IN  updateHabitStreaks(h, clock)

\* habits.find(h => h.id === id): the index of the habit, 0 when there is none
FindHabit(list, id) ==
    IF \E i \in 1..Len(list) : list[i].id = id
    THEN CHOOSE i \in 1..Len(list) :
            list[i].id = id /\ \A j \in 1..(i - 1) : list[j].id # id
    ELSE 0

\* ToggleUpdate with updateHabitStreaks lost: the streak fields are kept
ToggleUpdate_StreaksKept(prev, id, date, isCompleted, clock) ==
    LET Other(completionDate) == completionDate # date
    IN  [ i \in 1..Len(prev) |->
            IF prev[i].id # id THEN prev[i]
            ELSE [prev[i] EXCEPT !.completions =
                        IF isCompleted THEN SelectSeq(prev[i].completions, Other)
                        ELSE Append(prev[i].completions, date)] ]

\* The setHabits updater of both toggles: prev.map(h => ...) at instant clock
ToggleUpdate(prev, id, date, isCompleted, clock) ==
    LET Other(completionDate) == completionDate # date
    IN  [ i \in 1..Len(prev) |->
            IF prev[i].id # id THEN prev[i]
            ELSE updateHabitStreaks(
                   [prev[i] EXCEPT !.completions =
                        IF isCompleted THEN SelectSeq(prev[i].completions, Other)
                        ELSE Append(prev[i].completions, date)],
                   clock) ]

\* The setHabits updater of updateHabit, for updates that carry selectedDays
UpdateUpdate(prev, id, updates, clock) ==
    [ i \in 1..Len(prev) |->
        IF prev[i].id = id
        THEN updateHabitStreaks([prev[i] EXCEPT !.selectedDays = updates.selectedDays],
                                clock)
        ELSE prev[i] ]

\* The completions table after .delete().eq(habit_id).eq(completion_date)
DeleteRows(rows, id, date) ==
    LET Kept(row) == ~(row.habit_id = id /\ row.completion_date = date)
    IN  SelectSeq(rows, Kept)

\* The completions table after .insert({habit_id, completion_date})
InsertRow(rows, id, date) == Append(rows, [habit_id |-> id, completion_date |-> date])

\* getHabitStats: habits.reduce((sum, habit) => sum + habit.completions.length, 0)
RECURSIVE SumCompletions(_)
SumCompletions(list) ==
    IF list = <<>> THEN 0
    ELSE Len(Head(list).completions) + SumCompletions(Tail(list))

\* getHabitStats: habits.reduce((sum, habit) => sum + getCompletionRate(habit, 'month'), 0)
RECURSIVE SumMonthlyRates(_, _)
SumMonthlyRates(list, clock) ==
    IF list = <<>> THEN 0
    ELSE getCompletionRate(Head(list), Month, clock) + SumMonthlyRates(Tail(list), clock)

\* getHabitStats: Math.max(...habits.map(h => h.bestStreak), 0)
RECURSIVE MaxBestStreak(_)
MaxBestStreak(list) ==
    IF list = <<>> THEN 0
    ELSE Max(Head(list).bestStreak, MaxBestStreak(Tail(list)))

\* AverageCompletionRate with the division by totalHabits lost
AverageCompletionRate_Sum(list, clock) == SumMonthlyRates(list, clock)

\* getHabitStats: averageCompletionRate
AverageCompletionRate(list, clock) ==
    IF Len(list) > 0 THEN MathRound(SumMonthlyRates(list, clock), Len(list)) ELSE 0

\* useHabits.getHabitStats() at instant clock
getHabitStats(list, clock) ==
    LET Active(h) == h.currentStreak > 0
    IN  [ totalHabits           |-> Len(list),
          totalCompletions      |-> SumCompletions(list),
          averageCompletionRate |-> AverageCompletionRate(list, clock),
          longestStreak         |-> MaxBestStreak(list),
          currentActiveStreaks  |-> Len(SelectSeq(list, Active)) ]

\* ------------------------------------------------------------------------
\* The hook's operations as steps: a call starts (reads the rendered habits and
\* sends its storage call), the store answers, the call finishes (setHabits)
\* ------------------------------------------------------------------------
\* At most MaxHabits habits are added
MaxHabits == 2

\* At most MaxRequests storage calls are made
MaxRequests == 3

\* At most MaxInFlight calls await their storage call at once
MaxInFlight == 2

\* The local date advances at most MaxTicks times
MaxTicks == 1

\* The first current date of the hook: Monday 2024-04-29
HookFirstDay == FirstToday

\* The dates toggleHabitCompletionForDate is called with
HookDates == { CivilFromDays(d) : d \in (HookFirstDay - 1)..(HookFirstDay + 1) }

\* The schedules habits are added and updated with
HookSchedules == { <<>>, <<"monday", "wednesday", "friday">> }

\* An async call in flight: seq numbers the storage call it sent
NewCall(seq, op, id, date, isCompleted, selectedDays) ==
    [ seq |-> seq, op |-> op, stage |-> "sent", id |-> id, date |-> date,
      isCompleted |-> isCompleted, selectedDays |-> selectedDays ]

InitHabits ==
    /\ now = HookFirstDay * HoursPerDay + 9
    /\ habit = NewHabit(HookFirstDay, Undefined, <<>>)
    /\ targetDate = Undefined
    /\ period = Month
    /\ pc = "ready"
    /\ result = NoResult
    /\ AppInit
    /\ frame = NoFrame
    /\ HookInit

\* A call may send a storage call
CanSend == requests < MaxRequests /\ Cardinality(calls) < MaxInFlight

\* addHabit(habitData) up to its storage call
AddHabitStart ==
    /\ CanSend
    /\ Len(store.habits) + Cardinality({c \in calls : c.op = "addHabit" /\ c.stage = "sent"})
         < MaxHabits
    /\ \E selectedDays \in HookSchedules :
          calls' = calls \cup { NewCall(requests + 1, "addHabit", 0, getTodayString(now),
                                        FALSE, selectedDays) }
    /\ requests' = requests + 1
    /\ result' = [fn |-> "addHabit", value |-> "sent"]
    /\ UNCHANGED <<now, habit, targetDate, period, appVars, frame, pc, habits, error, store>>

\* toggleHabitCompletion(id) up to its storage call
ToggleHabitCompletionStart ==
    \E id \in 1..MaxHabits :
      LET today == getTodayString(now)
          found == FindHabit(habits, id)
      IN  IF found = 0
          THEN /\ result' = [fn |-> "toggleHabitCompletion", value |-> "no habit"]
               /\ UNCHANGED <<now, habit, targetDate, period, appVars, frame, pc>>
               /\ UNCHANGED hookVars
          ELSE /\ CanSend
               /\ calls' = calls \cup { NewCall(requests + 1, "toggleHabitCompletion", id, today,
                                                Includes(habits[found].completions, today),
                                                <<>>) }
               /\ requests' = requests + 1
               /\ result' = [fn |-> "toggleHabitCompletion", value |-> "sent"]
               /\ UNCHANGED <<now, habit, targetDate, period, appVars, frame, pc, habits, error, store>>

\* BeforeCreation with the guard lost: no date is refused
BeforeCreation_Never(date, h) == FALSE

\* toggleHabitCompletionForDate: date < habit.createdDate
BeforeCreation(date, h) == StrLess(date, h.createdDate)

\* toggleHabitCompletionForDate(id, date) up to its storage call
ToggleHabitCompletionForDateStart ==
    \E id \in 1..MaxHabits, date \in HookDates :
      LET found == FindHabit(habits, id)
      IN  IF found = 0
          THEN /\ result' = [fn |-> "toggleHabitCompletionForDate", value |-> "no habit"]
               /\ UNCHANGED <<now, habit, targetDate, period, appVars, frame, pc>>
               /\ UNCHANGED hookVars
          ELSE IF BeforeCreation(date, habits[found])
          THEN /\ result' = [fn |-> "toggleHabitCompletionForDate", value |-> "rejected"]
               /\ UNCHANGED <<now, habit, targetDate, period, appVars, frame, pc>>
               /\ UNCHANGED hookVars
          ELSE /\ CanSend
               /\ calls' = calls \cup { NewCall(requests + 1, "toggleHabitCompletionForDate",
                                                id, date,
                                                Includes(habits[found].completions, date),
                                                <<>>) }
               /\ requests' = requests + 1
               /\ result' = [fn |-> "toggleHabitCompletionForDate", value |-> "sent"]
               /\ UNCHANGED <<now, habit, targetDate, period, appVars, frame, pc, habits, error, store>>

\* updateHabit(id, {selectedDays}) up to its storage call
UpdateHabitStart ==
    /\ CanSend
    /\ \E id \in 1..MaxHabits, selectedDays \in HookSchedules :
          calls' = calls \cup { NewCall(requests + 1, "updateHabit", id, getTodayString(now),
                                        FALSE, selectedDays) }
    /\ requests' = requests + 1
    /\ result' = [fn |-> "updateHabit", value |-> "sent"]
    /\ UNCHANGED <<now, habit, targetDate, period, appVars, frame, pc, habits, error, store>>

\* The habits row inserted by addHabit, as returned by .select().single()
InsertedHabitRow(c) ==
    [ id               |-> Len(store.habits) + 1,
      selected_days    |-> Some(JSONstringify(c.selectedDays)),
      target_frequency |-> "daily",
      created_date     |-> c.date ]

\* The habits table after .update({selected_days}).eq('id', id)
UpdateRows(rows, id, selectedDays) ==
    [ i \in 1..Len(rows) |->
        IF rows[i].id = id
        THEN [rows[i] EXCEPT !.selected_days = Some(JSONstringify(selectedDays))]
        ELSE rows[i] ]

\* The store carries out a storage call and answers without an error
StorageSucceeds ==
    \E c \in calls :
      /\ c.stage = "sent"
      /\ store' =
           IF c.op = "addHabit"
           THEN [store EXCEPT !.habits = Append(store.habits, InsertedHabitRow(c))]
           ELSE IF c.op = "updateHabit"
           THEN [store EXCEPT !.habits = UpdateRows(store.habits, c.id, c.selectedDays)]
           ELSE IF c.isCompleted
           THEN [store EXCEPT !.completions = DeleteRows(store.completions, c.id, c.date)]
           ELSE [store EXCEPT !.completions = InsertRow(store.completions, c.id, c.date)]
      /\ calls' = (calls \ {c})
                  \cup { [c EXCEPT !.stage = "ok",
                                   !.id = IF c.op = "addHabit"
                                          THEN Len(store.habits) + 1 ELSE c.id] }
      /\ UNCHANGED <<now, habit, targetDate, period, appVars, frame, pc, result, habits, error, requests>>

\* The store answers a storage call with an error
StorageFails ==
    \E c \in calls :
      /\ c.stage = "sent"
      /\ calls' = (calls \ {c}) \cup { [c EXCEPT !.stage = "failed"] }
      /\ UNCHANGED <<now, habit, targetDate, period, appVars, frame, pc, result, habits, error, store, requests>>

\* The row of the habits table with the id
RowOf(rows, id) == rows[CHOOSE i \in 1..Len(rows) : rows[i].id = id]

\* addHabit after its storage call: setHabits(prev => [newHabit, ...prev]), or
\* setError and rethrow
AddHabitFinish ==
    \E c \in calls :
      /\ c.op = "addHabit"
      /\ c.stage # "sent"
      /\ IF c.stage = "ok"
         THEN /\ habits' = <<convertToHabit(RowOf(store.habits, c.id), <<>>, now)>> \o habits
              /\ error' = error
              /\ result' = [fn |-> "addHabit", value |-> "done"]
         ELSE /\ habits' = habits
              /\ error' = "Failed to add habit"
              /\ result' = [fn |-> "addHabit", value |-> "thrown"]
      /\ calls' = calls \ {c}
      /\ UNCHANGED <<now, habit, targetDate, period, appVars, frame, pc, store, requests>>

\* ToggleHabitCompletionFinish with a catch block that rethrows, as addHabit's does
ToggleHabitCompletionFinish_Rethrows ==
    \E c \in calls :
      /\ c.op = "toggleHabitCompletion"
      /\ c.stage # "sent"
      /\ IF c.stage = "ok"
         THEN /\ habits' = ToggleUpdate(habits, c.id, c.date, c.isCompleted, now)
              /\ error' = error
              /\ result' = [fn |-> "toggleHabitCompletion", value |-> "done"]
         ELSE /\ habits' = habits
              /\ error' = "Failed to update habit"
              /\ result' = [fn |-> "toggleHabitCompletion", value |-> "thrown"]
      /\ calls' = calls \ {c}
      /\ UNCHANGED <<now, habit, targetDate, period, appVars, frame, pc, store, requests>>

\* toggleHabitCompletion after its storage call: setHabits(prev => prev.map(...)),
\* or setError
ToggleHabitCompletionFinish ==
    \E c \in calls :
      /\ c.op = "toggleHabitCompletion"
      /\ c.stage # "sent"
      /\ IF c.stage = "ok"
         THEN /\ habits' = ToggleUpdate(habits, c.id, c.date, c.isCompleted, now)
              /\ error' = error
              /\ result' = [fn |-> "toggleHabitCompletion", value |-> "done"]
         ELSE /\ habits' = habits
              /\ error' = "Failed to update habit"
              /\ result' = [fn |-> "toggleHabitCompletion", value |-> "failed"]
      /\ calls' = calls \ {c}
      /\ UNCHANGED <<now, habit, targetDate, period, appVars, frame, pc, store, requests>>

\* toggleHabitCompletionForDate after its storage call
ToggleHabitCompletionForDateFinish ==
    \E c \in calls :
      /\ c.op = "toggleHabitCompletionForDate"
      /\ c.stage # "sent"
      /\ IF c.stage = "ok"
         THEN /\ habits' = ToggleUpdate(habits, c.id, c.date, c.isCompleted, now)
              /\ error' = error
              /\ result' = [fn |-> "toggleHabitCompletionForDate", value |-> "done"]
         ELSE /\ habits' = habits
              /\ error' = "Failed to update habit"
              /\ result' = [fn |-> "toggleHabitCompletionForDate", value |-> "failed"]
      /\ calls' = calls \ {c}
      /\ UNCHANGED <<now, habit, targetDate, period, appVars, frame, pc, store, requests>>

\* updateHabit after its storage call: setHabits(prev => prev.map(...)), or
\* setError and rethrow
UpdateHabitFinish ==
    \E c \in calls :
      /\ c.op = "updateHabit"
      /\ c.stage # "sent"
      /\ IF c.stage = "ok"
         THEN /\ habits' = UpdateUpdate(habits, c.id, [selectedDays |-> Some(c.selectedDays)],
                                        now)
              /\ error' = error
              /\ result' = [fn |-> "updateHabit", value |-> "done"]
         ELSE /\ habits' = habits
              /\ error' = "Failed to update habit"
              /\ result' = [fn |-> "updateHabit", value |-> "thrown"]
      /\ calls' = calls \ {c}
      /\ UNCHANGED <<now, habit, targetDate, period, appVars, frame, pc, store, requests>>

\* The statistics of the rendered habits are computed
CallGetHabitStats ==
    /\ result' = [fn |-> "getHabitStats", value |-> getHabitStats(habits, now)]
    /\ UNCHANGED <<now, habit, targetDate, period, appVars, frame, pc>>
    /\ UNCHANGED hookVars

\* The local date advances by one day, between two calls of the hook
Tick ==
    /\ now < (HookFirstDay + MaxTicks) * HoursPerDay
    /\ calls = {}
    /\ now' = now + HoursPerDay
    /\ result' = [fn |-> "tick", value |-> "done"]
    /\ UNCHANGED <<habit, targetDate, period, appVars, frame, pc>>
    /\ UNCHANGED hookVars

NextHabits ==
    \/ AddHabitStart
    \/ ToggleHabitCompletionStart
    \/ ToggleHabitCompletionForDateStart
    \/ UpdateHabitStart
    \/ StorageSucceeds
    \/ StorageFails
    \/ AddHabitFinish
    \/ ToggleHabitCompletionFinish
    \/ ToggleHabitCompletionForDateFinish
    \/ UpdateHabitFinish
    \/ CallGetHabitStats
    \/ Tick

SpecHabits == InitHabits /\ [][NextHabits]_vars

\* ------------------------------------------------------------------------
\* App.tsx: useTasks over the storage collaborator; TasksView
\* (tasks of type 'task'; no category, status or search filter is selected)
\* ------------------------------------------------------------------------
\* convertToTask(taskRow): the fields that lateness depends on
convertToTask(taskRow) ==
    [ id |-> taskRow.id, dueDate |-> taskRow.due_date, status |-> taskRow.status ]

\* tasksData.map(convertToTask), .order('created_at', { ascending: false })
ConvertedTasks(rows) == [ i \in 1..Len(rows) |-> convertToTask(rows[Len(rows) + 1 - i]) ]

\* loadTasks: convertedTasks.map(task => ...) at instant clock
TasksWithUpdatedStatus(convertedTasks, clock) ==
    LET today == getTodayString(clock)
    IN  [ i \in 1..Len(convertedTasks) |->
            IF /\ convertedTasks[i].status # "completed"
               /\ StrLess(convertedTasks[i].dueDate, today)
            THEN [convertedTasks[i] EXCEPT !.status = "overdue"]
            ELSE convertedTasks[i] ]

\* useTasks.getTaskStats()
getTaskStats(list) ==
    LET Completed(t) == t.status = "completed"
        Overdue(t)   == t.status = "overdue"
        Pending(t)   == t.status = "pending"
        totalTasks     == Len(list)
        completedTasks == Len(SelectSeq(list, Completed))
    IN  [ totalTasks     |-> totalTasks,
          completedTasks |-> completedTasks,
          overdueTasks   |-> Len(SelectSeq(list, Overdue)),
          pendingTasks   |-> Len(SelectSeq(list, Pending)),
          completionRate |-> IF totalTasks > 0
                             THEN MathRound(completedTasks * 100, totalTasks) ELSE 0 ]

\* TasksView.isTaskEffectivelyCompleted(task), for a task of type 'task'
isTaskEffectivelyCompleted(task) == task.status = "completed"

\* TasksView.organizeTasksBySections() at instant clock
organizeTasksBySections(filteredTasks, clock) ==
    LET today == getTodayString(clock)
        NotCompleted(task) == ~isTaskEffectivelyCompleted(task)
        Current(task) == task.status # "overdue" /\ ~StrLess(task.dueDate, today)
        Overdue(task) == \/ task.status = "overdue"
                         \/ (task.status # "completed" /\ StrLess(task.dueDate, today))
        pendingTasks == SelectSeq(filteredTasks, NotCompleted)
    IN  [ current   |-> SelectSeq(pendingTasks, Current),
          overdue   |-> SelectSeq(pendingTasks, Overdue),
          completed |-> SelectSeq(filteredTasks, isTaskEffectivelyCompleted) ]

\* At most MaxTasks tasks are held by the store
MaxTasks == 2

\* The due dates of tasks: yesterday, today and tomorrow
TaskDates == { CivilFromDays(d) : d \in (HookFirstDay - 1)..(HookFirstDay + 1) }

\* The rows of the tasks table before the session: none, or one task that was
\* added as pending and may have been completed since; its id is 0, the ids the
\* store gives later are the numbers of the inserting storage calls
TaskTables ==
    { <<>> } \cup { << [id |-> 0, due_date |-> d, status |-> s] >> :
                      d \in TaskDates, s \in {"pending", "completed"} }

\* An async call of useTasks in flight; updateData are the columns it writes,
\* data is what the store answered
NewTaskCall(seq, op, id, updateData) ==
    [ seq |-> seq, op |-> op, stage |-> "sent", id |-> id, updateData |-> updateData,
      data |-> <<>> ]

InitTasks ==
    /\ now = HookFirstDay * HoursPerDay + 9
    /\ habit = NewHabit(HookFirstDay, Undefined, <<>>)
    /\ targetDate = Undefined
    /\ period = Month
    /\ pc = "ready"
    /\ result = NoResult
    /\ AppInit
    /\ frame = NoFrame
    /\ habits = <<>>
    /\ error = NoError
    /\ calls = {}
    /\ \E rows \in TaskTables : store = [EmptyStore EXCEPT !.tasks = rows]
    /\ requests = 0

\* loadTasks() up to its storage call: setError(null) and the select
LoadTasksStart ==
    /\ CanSend
    /\ taskError' = NoError
    /\ calls' = calls \cup { NewTaskCall(requests + 1, "loadTasks", 0,
                                         [due_date |-> Undefined, status |-> Undefined]) }
    /\ requests' = requests + 1
    /\ result' = [fn |-> "loadTasks", value |-> "sent"]
    /\ UNCHANGED <<now, habit, targetDate, period, pc, habits, error, store, tasks, frame>>

\* addTask(taskData) up to its storage call; a new task is pending
AddTaskStart ==
    /\ CanSend
    /\ Len(store.tasks) + Cardinality({c \in calls : c.op = "addTask" /\ c.stage = "sent"})
         < MaxTasks
    /\ \E dueDate \in TaskDates :
          calls' = calls \cup { NewTaskCall(requests + 1, "addTask", requests + 1,
                                            [due_date |-> Some(dueDate),
                                             status   |-> Some("pending")]) }
    /\ requests' = requests + 1
    /\ result' = [fn |-> "addTask", value |-> "sent"]
    /\ UNCHANGED <<now, habit, targetDate, period, pc, habits, error, store, appVars, frame>>

\* updateTask(id, {dueDate}) of a rendered task, up to its storage call
UpdateTaskStart ==
    /\ CanSend
    /\ \E i \in 1..Len(tasks), dueDate \in TaskDates :
          calls' = calls \cup { NewTaskCall(requests + 1, "updateTask", tasks[i].id,
                                            [due_date |-> Some(dueDate),
                                             status   |-> Undefined]) }
    /\ requests' = requests + 1
    /\ result' = [fn |-> "updateTask", value |-> "sent"]
    /\ UNCHANGED <<now, habit, targetDate, period, pc, habits, error, store, appVars, frame>>

\* deleteTask(id) of a rendered task, up to its storage call
DeleteTaskStart ==
    /\ CanSend
    /\ \E i \in 1..Len(tasks) :
          calls' = calls \cup { NewTaskCall(requests + 1, "deleteTask", tasks[i].id,
                                            [due_date |-> Undefined, status |-> Undefined]) }
    /\ requests' = requests + 1
    /\ result' = [fn |-> "deleteTask", value |-> "sent"]
    /\ UNCHANGED <<now, habit, targetDate, period, pc, habits, error, store, appVars, frame>>

\* toggleTaskCompletion: task.status === 'completed' ? 'pending' : 'completed'
NewStatus(task) == IF task.status = "completed" THEN "pending" ELSE "completed"

\* toggleTaskCompletion(id) of a rendered task, up to its storage call
ToggleTaskCompletionStart ==
    /\ CanSend
    /\ \E i \in 1..Len(tasks) :
          calls' = calls \cup { NewTaskCall(requests + 1, "toggleTaskCompletion", tasks[i].id,
                                            [due_date |-> Undefined,
                                             status   |-> Some(NewStatus(tasks[i]))]) }
    /\ requests' = requests + 1
    /\ result' = [fn |-> "toggleTaskCompletion", value |-> "sent"]
    /\ UNCHANGED <<now, habit, targetDate, period, pc, habits, error, store, appVars, frame>>

\* The tasks table after .update(updateData).eq('id', id)
UpdateTaskRows(rows, id, updateData) ==
    [ i \in 1..Len(rows) |->
        IF rows[i].id # id THEN rows[i]
        ELSE [ id       |-> id,
               due_date |-> IF updateData.due_date.some
                            THEN updateData.due_date.val ELSE rows[i].due_date,
               status   |-> IF updateData.status.some
                            THEN updateData.status.val ELSE rows[i].status ] ]

\* The rows of the tasks table with the id
TaskRowsOf(rows, id) == LET Same(row) == row.id = id IN SelectSeq(rows, Same)

\* The tasks table after .delete().eq('id', id)
DeleteTaskRows(rows, id) == LET Other(row) == row.id # id IN SelectSeq(rows, Other)

\* The store carries out a storage call of useTasks; .single() answers with an
\* error when the update matched no row
TaskStorageSucceeds ==
    \E c \in calls :
      /\ c.stage = "sent"
      /\ LET after ==
               IF c.op = "addTask"
               THEN Append(store.tasks, [id |-> c.id, due_date |-> c.updateData.due_date.val,
                                         status |-> c.updateData.status.val])
               ELSE IF c.op \in {"updateTask", "toggleTaskCompletion"}
               THEN UpdateTaskRows(store.tasks, c.id, c.updateData)
               ELSE IF c.op = "deleteTask"
               THEN DeleteTaskRows(store.tasks, c.id)
               ELSE store.tasks
             data == IF c.op = "loadTasks" THEN store.tasks
                     ELSE IF c.op = "deleteTask" THEN <<>>
                     ELSE TaskRowsOf(after, c.id)
         IN  /\ store' = [store EXCEPT !.tasks = after]
             /\ calls' = (calls \ {c})
                         \cup { [c EXCEPT !.data = data,
                                          !.stage = IF c.op \in {"loadTasks", "deleteTask"}
                                                       \/ Len(data) = 1
                                                    THEN "ok" ELSE "failed"] }
      /\ UNCHANGED <<now, habit, targetDate, period, pc, result, habits, error, requests,
                     appVars, frame>>

\* The store answers a storage call of useTasks with an error
TaskStorageFails ==
    \E c \in calls :
      /\ c.stage = "sent"
      /\ calls' = (calls \ {c}) \cup { [c EXCEPT !.stage = "failed"] }
      /\ UNCHANGED <<now, habit, targetDate, period, pc, result, habits, error, store,
                     requests, appVars, frame>>

\* The setTasks updater of updateTask and toggleTaskCompletion
ReplaceTask(prev, id, updatedTask) ==
    [ i \in 1..Len(prev) |-> IF prev[i].id = id THEN updatedTask ELSE prev[i] ]

\* loadTasks after its storage call: setTasks(tasksWithUpdatedStatus), or setError
LoadTasksFinish ==
    \E c \in calls :
      /\ c.op = "loadTasks"
      /\ c.stage # "sent"
      /\ IF c.stage = "ok"
         THEN /\ tasks' = TasksWithUpdatedStatus(ConvertedTasks(c.data), now)
              /\ taskError' = taskError
              /\ result' = [fn |-> "loadTasks", value |-> "done"]
         ELSE /\ tasks' = tasks
              /\ taskError' = "Failed to load tasks"
              /\ result' = [fn |-> "loadTasks", value |-> "failed"]
      /\ calls' = calls \ {c}
      /\ UNCHANGED <<now, habit, targetDate, period, pc, habits, error, store, requests, frame>>

\* addTask after its storage call: setTasks(prev => [newTask, ...prev]), or setError
AddTaskFinish ==
    \E c \in calls :
      /\ c.op = "addTask"
      /\ c.stage # "sent"
      /\ IF c.stage = "ok"
         THEN /\ tasks' = <<convertToTask(c.data[1])>> \o tasks
              /\ taskError' = taskError
              /\ result' = [fn |-> "addTask", value |-> "done"]
         ELSE /\ tasks' = tasks
              /\ taskError' = "Failed to add task"
              /\ result' = [fn |-> "addTask", value |-> "failed"]
      /\ calls' = calls \ {c}
      /\ UNCHANGED <<now, habit, targetDate, period, pc, habits, error, store, requests, frame>>

\* updateTask after its storage call: setTasks(prev => prev.map(...)), or setError
UpdateTaskFinish ==
    \E c \in calls :
      /\ c.op = "updateTask"
      /\ c.stage # "sent"
      /\ IF c.stage = "ok"
         THEN /\ tasks' = ReplaceTask(tasks, c.id, convertToTask(c.data[1]))
              /\ taskError' = taskError
              /\ result' = [fn |-> "updateTask", value |-> "done"]
         ELSE /\ tasks' = tasks
              /\ taskError' = "Failed to update task"
              /\ result' = [fn |-> "updateTask", value |-> "failed"]
      /\ calls' = calls \ {c}
      /\ UNCHANGED <<now, habit, targetDate, period, pc, habits, error, store, requests, frame>>

\* deleteTask after its storage call: setTasks(prev => prev.filter(...)), or setError
DeleteTaskFinish ==
    \E c \in calls :
      /\ c.op = "deleteTask"
      /\ c.stage # "sent"
      /\ IF c.stage = "ok"
         THEN /\ tasks' = LET Other(task) == task.id # c.id IN SelectSeq(tasks, Other)
              /\ taskError' = taskError
              /\ result' = [fn |-> "deleteTask", value |-> "done"]
         ELSE /\ tasks' = tasks
              /\ taskError' = "Failed to delete task"
              /\ result' = [fn |-> "deleteTask", value |-> "failed"]
      /\ calls' = calls \ {c}
      /\ UNCHANGED <<now, habit, targetDate, period, pc, habits, error, store, requests, frame>>

\* toggleTaskCompletion after its storage call: setTasks(prev => prev.map(...)),
\* or setError
ToggleTaskCompletionFinish ==
    \E c \in calls :
      /\ c.op = "toggleTaskCompletion"
      /\ c.stage # "sent"
      /\ IF c.stage = "ok"
         THEN /\ tasks' = ReplaceTask(tasks, c.id, convertToTask(c.data[1]))
              /\ taskError' = taskError
              /\ result' = [fn |-> "toggleTaskCompletion", value |-> "done"]
         ELSE /\ tasks' = tasks
              /\ taskError' = "Failed to update task"
              /\ result' = [fn |-> "toggleTaskCompletion", value |-> "failed"]
      /\ calls' = calls \ {c}
      /\ UNCHANGED <<now, habit, targetDate, period, pc, habits, error, store, requests, frame>>

\* The dashboard asks for the statistics of the tasks
CallGetTaskStats ==
    /\ result' = [fn |-> "getTaskStats", value |-> getTaskStats(tasks)]
    /\ UNCHANGED <<now, habit, targetDate, period, pc, appVars, frame>>
    /\ UNCHANGED hookVars

\* TasksView is rendered with the tasks
RenderTasksView ==
    /\ result' = [fn |-> "TasksView", value |-> organizeTasksBySections(tasks, now)]
    /\ UNCHANGED <<now, habit, targetDate, period, pc, appVars, frame>>
    /\ UNCHANGED hookVars

NextTasks ==
    \/ LoadTasksStart
    \/ AddTaskStart
    \/ UpdateTaskStart
    \/ DeleteTaskStart
    \/ ToggleTaskCompletionStart
    \/ TaskStorageSucceeds
    \/ TaskStorageFails
    \/ LoadTasksFinish
    \/ AddTaskFinish
    \/ UpdateTaskFinish
    \/ DeleteTaskFinish
    \/ ToggleTaskCompletionFinish
    \/ CallGetTaskStats
    \/ RenderTasksView

SpecTasks == InitTasks /\ [][NextTasks]_vars

\* ------------------------------------------------------------------------
\* useHabits.ts: loadHabits over a store that already holds a habit
\* ------------------------------------------------------------------------
\* completionsByHabit[habitRow.id] || []: the completion dates of the habit, in
\* the order of the rows
CompletionsByHabit(completionsData, id) ==
    LET Of(row) == row.habit_id = id
        rows    == SelectSeq(completionsData, Of)
    IN  [ i \in 1..Len(rows) |-> rows[i].completion_date ]

\* loadHabits: (habitsData || []).map(habitRow => convertToHabit(...)) at instant clock
HabitsWithCompletions(habitsData, completionsData, clock) ==
    [ i \in 1..Len(habitsData) |->
        convertToHabit(habitsData[i], CompletionsByHabit(completionsData, habitsData[i].id),
                       clock) ]

\* .from('habits').select('*').order('created_at', { ascending: false })
SelectHabits(rows) == [ i \in 1..Len(rows) |-> rows[Len(rows) + 1 - i] ]

\* A loadHabits call in flight: it awaits the habits, then the completions
NewLoad(seq) ==
    [ seq |-> seq, op |-> "loadHabits", stage |-> "fetching habits", id |-> 0,
      date |-> <<>>, isCompleted |-> FALSE, selectedDays |-> <<>>,
      habitsData |-> <<>>, completionsData |-> <<>> ]

\* The habit held by the store before the session was created two days ago
StoredCreatedDay == HookFirstDay - 2

\* The completion rows held for it: none, or one for the day before today
StoredDays == {HookFirstDay - 1}

\* Its schedule: every day, or three days of the week
StoredSchedules == { <<>>, <<"monday", "wednesday", "friday">> }

\* The hook over a store that holds one habit and its completion rows, as
\* constructed or after its initial loadHabits
InitLoaded ==
    /\ now = HookFirstDay * HoursPerDay + 9
    /\ habit = NewHabit(HookFirstDay, Undefined, <<>>)
    /\ targetDate = Undefined
    /\ period = Month
    /\ pc = "ready"
    /\ result = NoResult
    /\ AppInit
    /\ frame = NoFrame
    /\ error = NoError
    /\ calls = {}
    /\ requests = 0
    /\ \E selectedDays \in StoredSchedules, days \in SUBSET StoredDays :
          store = [ EmptyStore EXCEPT
                      !.habits = << [ id               |-> 1,
                                      selected_days    |-> Some(JSONstringify(selectedDays)),
                                      target_frequency |-> "daily",
                                      created_date     |-> CivilFromDays(StoredCreatedDay) ] >>,
                      !.completions =
                          LET dates == Arrange(days, "ascending")
                          IN  [ i \in 1..Len(dates) |->
                                  [habit_id |-> 1, completion_date |-> dates[i]] ] ]
    /\ habits \in { <<>>, HabitsWithCompletions(SelectHabits(store.habits),
                                                store.completions, now) }

\* loadHabits() up to its first storage call: setError(null) and the select of
\* the habits; the call needs two storage calls
LoadHabitsStart ==
    /\ requests + 1 < MaxRequests
    /\ Cardinality(calls) < MaxInFlight
    /\ error' = NoError
    /\ calls' = calls \cup { NewLoad(requests + 1) }
    /\ requests' = requests + 1
    /\ result' = [fn |-> "loadHabits", value |-> "sent"]
    /\ UNCHANGED <<now, habit, targetDate, period, pc, habits, store, appVars, frame>>

\* The store answers the select of the habits; loadHabits sends the select of
\* the completions
LoadHabitsFetchHabits ==
    \E c \in calls :
      /\ c.op = "loadHabits"
      /\ c.stage = "fetching habits"
      /\ calls' = (calls \ {c})
                  \cup { [c EXCEPT !.habitsData = SelectHabits(store.habits),
                                   !.stage = "fetching completions"] }
      /\ requests' = requests + 1
      /\ UNCHANGED <<now, habit, targetDate, period, pc, result, habits, error, store,
                     appVars, frame>>

\* The store answers the select of the completions
LoadHabitsFetchCompletions ==
    \E c \in calls :
      /\ c.op = "loadHabits"
      /\ c.stage = "fetching completions"
      /\ calls' = (calls \ {c})
                  \cup { [c EXCEPT !.completionsData = store.completions, !.stage = "ok"] }
      /\ UNCHANGED <<now, habit, targetDate, period, pc, result, habits, error, store,
                     requests, appVars, frame>>

\* The store answers one of the two selects with an error
LoadHabitsFails ==
    \E c \in calls :
      /\ c.op = "loadHabits"
      /\ c.stage \in {"fetching habits", "fetching completions"}
      /\ calls' = (calls \ {c}) \cup { [c EXCEPT !.stage = "failed"] }
      /\ UNCHANGED <<now, habit, targetDate, period, pc, result, habits, error, store,
                     requests, appVars, frame>>

\* loadHabits after its storage calls: setHabits(habitsWithCompletions), or setError
LoadHabitsFinish ==
    \E c \in calls :
      /\ c.op = "loadHabits"
      /\ c.stage \in {"ok", "failed"}
      /\ IF c.stage = "ok"
         THEN /\ habits' = HabitsWithCompletions(c.habitsData, c.completionsData, now)
              /\ error' = error
              /\ result' = [fn |-> "loadHabits", value |-> "done"]
         ELSE /\ habits' = habits
              /\ error' = "Failed to load habits"
              /\ result' = [fn |-> "loadHabits", value |-> "failed"]
      /\ calls' = calls \ {c}
      /\ UNCHANGED <<now, habit, targetDate, period, pc, store, requests, appVars, frame>>

NextLoaded ==
    \/ LoadHabitsStart
    \/ LoadHabitsFetchHabits
    \/ LoadHabitsFetchCompletions
    \/ LoadHabitsFails
    \/ LoadHabitsFinish
    \/ ToggleHabitCompletionStart
    \/ ToggleHabitCompletionForDateStart
    \/ StorageSucceeds
    \/ StorageFails
    \/ ToggleHabitCompletionFinish
    \/ ToggleHabitCompletionForDateFinish
    \/ Tick

SpecLoaded == InitLoaded /\ [][NextLoaded]_vars

\* ------------------------------------------------------------------------
\* calculateStreak run step by step: one step enters the function, one step
\* per iteration of its loops, the last of which returns
\* ------------------------------------------------------------------------
\* The activation of calculateStreak: where it is and its local variables
Frame(at, sortedCompletions, selectedDays, streak, currentDate, i) ==
    [ at |-> at, sortedCompletions |-> sortedCompletions, selectedDays |-> selectedDays,
      streak |-> streak, currentDate |-> currentDate, i |-> i ]

\* StepBack with the date left where it is
StepBack_Stays(currentDate) == currentDate

\* currentDate.setDate(currentDate.getDate() - 1) of the loops
StepBack(currentDate) == setDate(currentDate, getDate(currentDate) - 1)

\* currentDate < new Date(Date.now() - 365 * 24 * 60 * 60 * 1000)
SafetyCheck(currentDate, clock) == currentDate < clock - SafetyDays * HoursPerDay

\* The day the walks of the step-by-step runs are made on: Wednesday 2024-05-01
WalkToday == FirstToday + 2

\* The days the short completion lists are drawn from
WalkWindow == (WalkToday - 2)..(WalkToday + 1)

\* An unbroken run is two days longer than the safety bound
RunLength == SafetyDays + 2

\* Every day of the n days that start on the day first, as an array, oldest first
EveryDay(first, n) == [ i \in 1..n |-> CivilFromDays(first + i - 1) ]

\* The days between the clock date and an explicit targetDate: the target lies a
\* week ahead of the clock, or behind it by more than the safety bound
TargetLeads == {7, 0 - (SafetyDays + 1)}

\* Short lists under every schedule, at midnight and later in the day
InitWalkWindow ==
    \E hour \in {0, 9}, selectedDays \in Schedules, days \in SUBSET WalkWindow :
        /\ now = WalkToday * HoursPerDay + hour
        /\ habit = NewHabit(WalkToday - 2, selectedDays, Arrange(days, "ascending"))
        /\ targetDate = Undefined

\* Every Tuesday before today (a Wednesday) completed, back past the safety
\* bound, under the schedule of Tuesdays: no scheduled day is missed
InitWalkWeekly ==
    \E hour \in {0, 9}, withToday \in BOOLEAN :
        LET count == SafetyDays \div 7 + 2
            days  == LongRun(WalkToday, 7, count) \cup (IF withToday THEN {WalkToday} ELSE {})
        IN  /\ now = WalkToday * HoursPerDay + hour
            /\ habit = NewHabit(WalkToday - 7 * count, Some(<<"tuesday">>),
                                Arrange(days, "ascending"))
            /\ targetDate = Undefined

\* Every day before today completed, back past the safety bound, with and
\* without today, for a daily habit and under the schedule of all seven days
InitWalkUnbroken ==
    \E withToday \in BOOLEAN, selectedDays \in {Some(<<>>), Some(AllSevenDays)} :
        /\ now = WalkToday * HoursPerDay
        /\ habit = NewHabit(WalkToday - RunLength, selectedDays,
                            EveryDay(WalkToday - RunLength,
                                     RunLength + (IF withToday THEN 1 ELSE 0)))
        /\ targetDate = Undefined

\* An explicit targetDate that is not the clock date
InitWalkTargetDate ==
    \E lead \in TargetLeads, selectedDays \in {Some(<<"tuesday">>), Some(<<"funday">>)} :
        /\ now = WalkToday * HoursPerDay + 9
        /\ habit = NewHabit(WalkToday - 2, selectedDays,
                            <<CivilFromDays(WalkToday + lead - 1)>>)
        /\ targetDate = Some(CivilFromDays(WalkToday + lead))

InitWalk ==
    /\ \/ InitWalkWindow
       \/ InitWalkWeekly
       \/ InitWalkUnbroken
       \/ InitWalkTargetDate
    /\ period = Week
    /\ pc = "ready"
    /\ result = NoResult
    /\ AppInit
    /\ frame = NoFrame
    /\ HookInit

\* calculateStreak from its call to the first iteration of a loop, or to its
\* return when completions is empty
CalculateStreakEnter ==
    /\ pc = "ready"
    /\ IF Len(habit.completions) = 0
       THEN /\ frame' = Frame("returned", <<>>, <<>>, 0, 0, 0)
            /\ result' = [fn |-> "calculateStreak", value |-> 0]
            /\ pc' = "done"
       ELSE LET sortedCompletions == Sort(habit.completions, "descending")
                today == IF targetDate.some THEN targetDate.val ELSE getTodayString(now)
                todayDate == ParseLocal(today)
                isTodayCompleted == Includes(sortedCompletions, today)
            IN  /\ frame' =
                     IF IsDaily(habit.selectedDays)
                     THEN Frame("daily loop", sortedCompletions, <<>>,
                                IF isTodayCompleted THEN 1 ELSE 0, StepBack(todayDate), 0)
                     ELSE Frame("scheduled loop", sortedCompletions, habit.selectedDays.val,
                                IF /\ Includes(habit.selectedDays.val, DayName(todayDate))
                                   /\ isTodayCompleted
                                THEN 1 ELSE 0,
                                StepBack(todayDate), 0)
                /\ result' = result
                /\ pc' = "walking"
    /\ UNCHANGED <<now, habit, targetDate, period, appVars>>
    /\ UNCHANGED hookVars

\* One iteration of the daily branch's for loop (i is its 0-based index); the
\* iteration that ends the loop returns streak
DailyLoopStep ==
    /\ pc = "walking"
    /\ frame.at = "daily loop"
    /\ IF /\ frame.i < Len(frame.sortedCompletions)
          /\ frame.sortedCompletions[frame.i + 1] = formatDate(frame.currentDate)
       THEN /\ frame' = [frame EXCEPT !.streak = frame.streak + 1,
                                      !.currentDate = StepBack(frame.currentDate),
                                      !.i = frame.i + 1]
            /\ UNCHANGED <<pc, result>>
       ELSE /\ frame' = [frame EXCEPT !.at = "returned"]
            /\ result' = [fn |-> "calculateStreak", value |-> frame.streak]
            /\ pc' = "done"
    /\ UNCHANGED <<now, habit, targetDate, period, appVars>>
    /\ UNCHANGED hookVars

\* One iteration of the scheduled branch's while (true) loop; a break returns streak
ScheduledLoopStep ==
    /\ pc = "walking"
    /\ frame.at = "scheduled loop"
    /\ LET currentDateString == formatDate(frame.currentDate)
           currentDayName    == DayName(frame.currentDate)
           scheduled == Includes(frame.selectedDays, currentDayName)
           completed == Includes(frame.sortedCompletions, currentDateString)
           streak    == IF scheduled /\ completed THEN frame.streak + 1 ELSE frame.streak
           moved     == StepBack(frame.currentDate)
       IN  IF scheduled /\ ~completed
           THEN /\ frame' = [frame EXCEPT !.at = "returned"]
                /\ result' = [fn |-> "calculateStreak", value |-> frame.streak]
                /\ pc' = "done"
           ELSE IF SafetyCheck(moved, now)
           THEN /\ frame' = [frame EXCEPT !.at = "returned", !.streak = streak,
                                          !.currentDate = moved]
                /\ result' = [fn |-> "calculateStreak", value |-> streak]
                /\ pc' = "done"
           ELSE /\ frame' = [frame EXCEPT !.streak = streak, !.currentDate = moved]
                /\ UNCHANGED <<pc, result>>
    /\ UNCHANGED <<now, habit, targetDate, period, appVars>>
    /\ UNCHANGED hookVars

NextWalk ==
    \/ CalculateStreakEnter
    \/ DailyLoopStep
    \/ ScheduledLoopStep

SpecWalk == InitWalk /\ [][NextWalk]_vars

\* The function runs to completion once called: an iteration that can be taken
\* is taken
SpecWalkLive == SpecWalk /\ WF_vars(DailyLoopStep) /\ WF_vars(ScheduledLoopStep)

\* ------------------------------------------------------------------------
\* A caller that toggles the same habit and date twice in sequence: the second
\* call starts when the first has finished and its state update is applied.
\* habit holds the habit as rendered before the first call, targetDate the date
\* ------------------------------------------------------------------------
\* The toggles that can be called for the date at instant clock
TogglesFor(date, clock) ==
    IF date = getTodayString(clock) THEN {"toggleHabitCompletion", "toggleHabitCompletionForDate"}
    ELSE {"toggleHabitCompletionForDate"}

\* The store holds a habit and the hook has loaded it
InitTwice ==
    /\ InitLoaded
    /\ habits # <<>>

\* The first toggle up to its storage call
FirstToggleStart ==
    /\ pc = "ready"
    /\ calls = {}
    /\ CanSend
    /\ \E id \in 1..MaxHabits, date \in HookDates :
        \E op \in TogglesFor(date, now) :
          LET found == FindHabit(habits, id)
          IN  /\ found # 0
              /\ ~BeforeCreation(date, habits[found])
              /\ calls' = { NewCall(requests + 1, op, id, date,
                                    Includes(habits[found].completions, date), <<>>) }
              /\ habit' = habits[found]
              /\ targetDate' = Some(date)
              /\ result' = [fn |-> op, value |-> "sent"]
    /\ requests' = requests + 1
    /\ pc' = "first toggle"
    /\ UNCHANGED <<now, period, appVars, frame, habits, error, store>>

\* The second toggle of the same habit and date up to its storage call, made
\* when the first has finished without an error
SecondToggleStart ==
    /\ pc = "first toggle"
    /\ calls = {}
    /\ error = NoError
    /\ CanSend
    /\ \E op \in TogglesFor(targetDate.val, now) :
          LET found == FindHabit(habits, habit.id)
          IN  /\ found # 0
              /\ ~BeforeCreation(targetDate.val, habits[found])
              /\ calls' = { NewCall(requests + 1, op, habit.id, targetDate.val,
                                    Includes(habits[found].completions, targetDate.val),
                                    <<>>) }
              /\ result' = [fn |-> op, value |-> "sent"]
    /\ requests' = requests + 1
    /\ pc' = "second toggle"
    /\ UNCHANGED <<now, habit, targetDate, period, appVars, frame, habits, error, store>>

NextTwice ==
    \/ FirstToggleStart
    \/ SecondToggleStart
    \/ StorageSucceeds
    \/ StorageFails
    \/ ToggleHabitCompletionFinish
    \/ ToggleHabitCompletionForDateFinish
    \/ Tick

SpecTwice == InitTwice /\ [][NextTwice]_vars

\* ------------------------------------------------------------------------
\* Reference definitions for the streak claims, over day numbers
\* ------------------------------------------------------------------------
\* The day number of a date string
DayOf(dateString) == DaysFromCivil(dateString[1], dateString[2], dateString[3])

\* The completion set of an array of date strings, as day numbers
DaySet(completions) == { DayOf(completions[i]) : i \in 1..Len(completions) }

NoDuplicates(arr) == \A i, j \in 1..Len(arr) : i # j => arr[i] # arr[j]

\* The current date as a day number
TodayDay == now \div HoursPerDay

\* The date calculateStreak takes as today: targetDate, or the current date
AsOf == IF targetDate.some THEN targetDate.val ELSE getTodayString(now)

AsOfDay == DayOf(AsOf)

\* isScheduled of the specification (4.2), for a day number
IsScheduled(day, selectedDays) ==
    IsDaily(selectedDays) \/ Includes(selectedDays.val, dayNames[((day + 4) % 7) + 1])

SetMax(S) == CHOOSE m \in S : \A x \in S : x <= m

\* Every completion date is at most n days away from the day today
WithinDays(completions, today, n) ==
    \A d \in DaySet(completions) : today - d <= n /\ d - today <= n

\* The backward walk: 1 for a scheduled, completed today; then from yesterday
\* back, every scheduled completed day up to the first scheduled day missed
BackwardWalk(C, selectedDays, today) ==
    (IF IsScheduled(today, selectedDays) /\ today \in C THEN 1 ELSE 0)
    + Cardinality({ d \in C :
                      /\ d < today
                      /\ IsScheduled(d, selectedDays)
                      /\ \A e \in (d + 1)..(today - 1) :
                            IsScheduled(e, selectedDays) => e \in C })

\* The length of the run of scheduled days, all completed, that ends at day d
ScheduledRunEndingAt(C, selectedDays, d) ==
    Cardinality({ e \in C :
                    /\ e <= d
                    /\ IsScheduled(e, selectedDays)
                    /\ \A f \in e..d : IsScheduled(f, selectedDays) => f \in C })

LongestScheduledRun(C, selectedDays) ==
    SetMax({0} \cup { ScheduledRunEndingAt(C, selectedDays, d) :
                        d \in { c \in C : IsScheduled(c, selectedDays) } })

\* The longest run of dates of C exactly one calendar day apart
LongestDailyRun(C) ==
    SetMax({0} \cup { Cardinality({ e \in C : e <= d /\ \A f \in e..d : f \in C }) :
                        d \in C })

StreakReturned == pc = "done" /\ result.fn = "calculateStreak"

BestStreakReturned == pc = "done" /\ result.fn = "calculateBestStreak"

\* ------------------------------------------------------------------------
\* Claims about calculateStreak and calculateBestStreak (under SpecStreak)
\* ------------------------------------------------------------------------
\* C1 (as stated): for a daily habit (selectedDays empty or absent) calculateStreak
\* returns what it returns when selectedDays lists all seven weekdays.
C1_DailyEqualsAllSevenDays ==
    (StreakReturned /\ IsDaily(habit.selectedDays))
    => result.value = calculateStreak(habit.completions, Some(AllSevenDays),
                                      targetDate, now)

\* C2 (as stated): for a non-empty schedule, a duplicate-free completion set
\* whose dates lie within 365 days of today, and every date today,
\* calculateStreak(C, S, today) equals the backward walk from today.
C2_BackwardWalkWithin365 ==
    ( /\ StreakReturned
      /\ ~IsDaily(habit.selectedDays)
      /\ NoDuplicates(habit.completions)
      /\ WithinDays(habit.completions, AsOfDay, SafetyDays) )
    => result.value = BackwardWalk(DaySet(habit.completions), habit.selectedDays,
                                   AsOfDay)

\* With today the wall-clock date of the call and the dates within 364 days of
\* it, calculateStreak equals the backward walk for every non-empty schedule.
BackwardWalkWithin364OfClock ==
    ( /\ StreakReturned
      /\ ~IsDaily(habit.selectedDays)
      /\ NoDuplicates(habit.completions)
      /\ AsOfDay = TodayDay
      /\ WithinDays(habit.completions, TodayDay, SafetyDays - 1) )
    => result.value = BackwardWalk(DaySet(habit.completions), habit.selectedDays,
                                   TodayDay)

\* Schedule monday/wednesday/friday, the last three scheduled days completed,
\* today not completed, and calculateStreak returned 3.
BackwardWalkScenarioReached ==
    /\ StreakReturned
    /\ habit.selectedDays = Some(<<"monday", "wednesday", "friday">>)
    /\ AsOfDay = TodayDay
    /\ ~Includes(habit.completions, AsOf)
    /\ Len(habit.completions) = 3
    /\ result.value = 3

\* C3 (as stated): when today is a scheduled day (every day, for a daily habit)
\* and not yet completed, completing today raises calculateStreak by exactly 1.
C3_CompletingTodayAddsOne ==
    ( /\ StreakReturned
      /\ ~Includes(habit.completions, AsOf)
      /\ IsScheduled(AsOfDay, habit.selectedDays) )
    => calculateStreak(Append(habit.completions, AsOf),
                       habit.selectedDays, targetDate, now) = result.value + 1

\* C4: for a daily habit and a duplicate-free completion set, calculateBestStreak
\* is the length of the longest run of dates one calendar day apart.
C4_DailyBestIsLongestRun ==
    ( /\ BestStreakReturned
      /\ IsDaily(habit.selectedDays)
      /\ NoDuplicates(habit.completions) )
    => result.value = LongestDailyRun(DaySet(habit.completions))

\* C4 witness: scenario 4 of the specification, for which 3 is returned.
C4_Witness ==
    /\ BestStreakReturned
    /\ IsDaily(habit.selectedDays)
    /\ habit.completions = Scenario4
    /\ result.value = 3

\* C5: for a non-empty schedule and a duplicate-free completion set,
\* calculateBestStreak is the length of the longest sequence of consecutive
\* scheduled days that are all completed; completions on unscheduled days change
\* nothing.
C5_ScheduledBestIsLongestRun ==
    ( /\ BestStreakReturned
      /\ ~IsDaily(habit.selectedDays)
      /\ NoDuplicates(habit.completions) )
    => LET OnSchedule(c) == IsScheduled(DayOf(c), habit.selectedDays)
       IN  /\ result.value = LongestScheduledRun(DaySet(habit.completions),
                                                 habit.selectedDays)
           /\ result.value = calculateBestStreak(SelectSeq(habit.completions, OnSchedule),
                                                 habit.selectedDays)

\* C5 witness: a run of three scheduled days across unscheduled days, with a
\* completion on an unscheduled day in the set.
C5_Witness ==
    /\ BestStreakReturned
    /\ habit.selectedDays = Some(<<"monday", "wednesday", "friday">>)
    /\ NoDuplicates(habit.completions)
    /\ \E i \in 1..Len(habit.completions) :
          ~IsScheduled(DayOf(habit.completions[i]), habit.selectedDays)
    /\ result.value = 3

\* C6: for every schedule and every duplicate-free completion set,
\* calculateBestStreak is at least calculateStreak.
C6_BestAtLeastCurrent ==
    (StreakReturned /\ NoDuplicates(habit.completions))
    => calculateBestStreak(habit.completions, habit.selectedDays) >= result.value

\* C6 witness: a current streak of at least 3 that is also the best streak.
C6_Witness ==
    /\ StreakReturned
    /\ NoDuplicates(habit.completions)
    /\ result.value >= 3
    /\ calculateBestStreak(habit.completions, habit.selectedDays) = result.value

\* ------------------------------------------------------------------------
\* Reference definitions for the completion-rate claims, over day numbers
\* ------------------------------------------------------------------------
\* This week's Monday, the 1st of this month, or today - (N - 1)
PeriodStartDay(per, today) ==
    IF per.kind = "week" THEN today - ((today + 3) % 7)
    ELSE IF per.kind = "month"
    THEN DaysFromCivil(CivilFromDays(today)[1], CivilFromDays(today)[2], 1)
    ELSE today - (per.days - 1)

\* The scheduled dates in [max(periodStart, createdDate), end], where end is
\* today if today is completed and yesterday otherwise
ScheduledElapsedSet(h, per, today) ==
    LET C         == DaySet(h.completions)
        periodDay == PeriodStartDay(per, today)
        created   == DayOf(h.createdDate)
        start     == IF created > periodDay THEN created ELSE periodDay
        end       == IF today \in C THEN today ELSE today - 1
    IN  { d \in start..end : IsScheduled(d, h.selectedDays) }

\* 0 when nothing is scheduled and elapsed, else round(100 * |C \cap SE| / |SE|)
ReferenceRate(h, per, today) ==
    LET SE   == ScheduledElapsedSet(h, per, today)
        done == Cardinality(DaySet(h.completions) \cap SE)
    IN  IF SE = {} THEN 0
        ELSE (200 * done + Cardinality(SE)) \div (2 * Cardinality(SE))

\* The habit with the completion of date string d toggled (added at the end, or
\* removed)
Toggled(h, d) ==
    LET Other(c) == c # d
    IN  [h EXCEPT !.completions = IF Includes(h.completions, d)
                                  THEN SelectSeq(h.completions, Other)
                                  ELSE Append(h.completions, d)]

RateReturned == pc = "done" /\ result.fn = "getCompletionRate"

\* ------------------------------------------------------------------------
\* Claims about getCompletionRate (under SpecRate)
\* ------------------------------------------------------------------------
\* C7: for a habit whose completions hold each date at most once,
\* getCompletionRate returns an integer between 0 and 100.
C7_RateBetween0And100 ==
    (RateReturned /\ NoDuplicates(habit.completions))
    => result.value \in 0..100

\* C7 witness: the rate 100 was returned over more than one scheduled elapsed
\* day, with a completion outside them in the list.
C7_Witness ==
    /\ RateReturned
    /\ result.value = 100
    /\ Len(ScheduledElapsedOf(habit, period, now)) >= 2
    /\ Len(habit.completions) > Len(ScheduledElapsedOf(habit, period, now))

\* C8 (as stated): for every habit getCompletionRate equals the reference rate
\* over the scheduled dates between max(periodStart, createdDate) and the
\* optimistic end date.
C8_RateIsReference ==
    RateReturned => result.value = ReferenceRate(habit, period, TodayDay)

\* For a habit whose completions hold each date at most once, getCompletionRate
\* equals the reference rate.
RateIsReferenceWithoutDuplicates ==
    (RateReturned /\ NoDuplicates(habit.completions))
    => result.value = ReferenceRate(habit, period, TodayDay)

\* C9: getCompletionRate is unchanged when a completion is added or removed on a
\* date before the creation date, before the period start, after today, or on an
\* unscheduled day.
C9_RateIgnoresOutsideDates ==
    RateReturned
    => \A d \in (TodayDay - MaxBack - 1)..(TodayDay + 2) :
          ( \/ d < DayOf(habit.createdDate)
            \/ d < PeriodStartDay(period, TodayDay)
            \/ d > TodayDay
            \/ ~IsScheduled(d, habit.selectedDays) )
          => getCompletionRate(Toggled(habit, CivilFromDays(d)), period, now)
             = result.value

\* C9 witness: the list holds a completion dated inside the period but before
\* the creation date, other completions count, and the rate is not 0 or 100.
C9_Witness ==
    /\ RateReturned
    /\ \E i \in 1..Len(habit.completions) :
          /\ DayOf(habit.completions[i]) < DayOf(habit.createdDate)
          /\ DayOf(habit.completions[i]) >= PeriodStartDay(period, TodayDay)
    /\ result.value > 0
    /\ result.value < 100

\* C10: when today is not completed, the rate after adding today to the
\* completions is at least the rate before, and the uncompleted today is not
\* among the scheduled elapsed days (the denominator).
C10_CompletingTodayNeverLowersRate ==
    ( /\ RateReturned
      /\ NoDuplicates(habit.completions)
      /\ ~Includes(habit.completions, getTodayString(now)) )
    => /\ getCompletionRate(Toggled(habit, getTodayString(now)), period, now)
          >= result.value
       /\ ~Includes(ScheduledElapsedOf(habit, period, now), getTodayString(now))

\* C10 witness: today is scheduled and not completed, the rate is between 0 and
\* 100, and completing today raises it.
C10_Witness ==
    /\ RateReturned
    /\ ~Includes(habit.completions, getTodayString(now))
    /\ IsScheduled(TodayDay, habit.selectedDays)
    /\ result.value > 0
    /\ result.value < 100
    /\ getCompletionRate(Toggled(habit, getTodayString(now)), period, now)
       > result.value

\* getCompletionRate with the new-habit special case removed
RateWithoutNewHabitCase(h, per, clock) ==
    LET scheduledElapsedDays == ScheduledElapsedOf(h, per, clock)
        completedDays        == CompletedDays(h, scheduledElapsedDays)
    IN  IF Len(scheduledElapsedDays) = 0 THEN 0
        ELSE MathRound(completedDays * 100, Len(scheduledElapsedDays))

\* C11: getCompletionRate returns what it returns with the new-habit special
\* case (one scheduled elapsed date, it is today, it is completed => 100) removed.
C11_NewHabitCaseRedundant ==
    RateReturned => result.value = RateWithoutNewHabitCase(habit, period, now)

\* C11 witness: the special case was taken (the only scheduled elapsed date is
\* today, completed once) and 100 was returned.
C11_Witness ==
    /\ RateReturned
    /\ NewHabitCase(ScheduledElapsedOf(habit, period, now), getTodayString(now),
                    CompletedDays(habit, ScheduledElapsedOf(habit, period, now)))
    /\ result.value = 100

\* ------------------------------------------------------------------------
\* Claims about the consumers of the schedule (under SpecSchedule)
\* ------------------------------------------------------------------------
\* The habit of the list with the given id
HabitOf(list, id) == list[CHOOSE i \in 1..Len(list) : list[i].id = id]

\* Whether an array of habits or of flags holds the id
HoldsId(list, id) == \E j \in 1..Len(list) : list[j].id = id

\* The inline tests of calculateStreak, calculateBestStreak, getCompletionRate,
\* getHabitsForDay (on or after createdDate) and getTodayHabits give the value
\* of isScheduled, for every habit of the list and every clicked day.
ScheduleTestsAgreeOutsideHabitCard ==
    /\ \A i \in 1..Len(habits), d \in ClickedDays(TodayDay) :
          LET selectedDays == habits[i].selectedDays
              expected     == IsScheduled(d, selectedDays)
          IN  /\ StreakIsScheduled(selectedDays, d * HoursPerDay) = expected
              /\ BestStreakIsScheduled(selectedDays, d * HoursPerDay) = expected
              /\ IsScheduledElapsed(habits[i], CivilFromDays(d)) = expected
    /\ (pc = "done" /\ result.fn = "getHabitsForDay")
       => \A i \in 1..Len(habits) :
             DayOf(habits[i].createdDate) <= result.value.date \div HoursPerDay
             => ( HoldsId(result.value.habits, habits[i].id)
                  <=> IsScheduled(result.value.date \div HoursPerDay,
                                  habits[i].selectedDays) )
    /\ (pc = "done" /\ result.fn = "getTodayHabits")
       => \A i \in 1..Len(habits) :
             HoldsId(result.value, habits[i].id)
             <=> IsScheduled(TodayDay, habits[i].selectedDays)

\* C12 (as stated): every inline test, HabitCard.isScheduledToday included,
\* returns the value of isScheduled: true when selectedDays is empty or absent,
\* otherwise true iff the date's weekday name is in selectedDays.
C12_ScheduleTestsAgree ==
    /\ ScheduleTestsAgreeOutsideHabitCard
    /\ (pc = "done" /\ result.fn = "HabitCard")
       => result.value.isScheduledToday
          = IsScheduled(TodayDay, HabitOf(habits, result.value.id).selectedDays)

\* ------------------------------------------------------------------------
\* Claims about the hook (under SpecHabits)
\* ------------------------------------------------------------------------
\* C13: while the current date is the one the hook started on, in every state
\* reached by addHabit, the toggles and updateHabit each habit's currentStreak
\* is calculateStreak(completions, selectedDays) and its bestStreak is
\* max(calculateBestStreak(completions, selectedDays), currentStreak); a habit
\* just created by addHabit has no completions and both streaks 0.
C13_StreakFieldsRecomputed ==
    /\ TodayDay = HookFirstDay
       => \A i \in 1..Len(habits) :
            LET h == habits[i]
                currentStreak == calculateStreak(h.completions, h.selectedDays,
                                                 Undefined, now)
            IN  /\ h.currentStreak = currentStreak
                /\ h.bestStreak
                   = Max(calculateBestStreak(h.completions, h.selectedDays), currentStreak)
    /\ result = [fn |-> "addHabit", value |-> "done"]
       => /\ habits[1].completions = <<>>
          /\ habits[1].currentStreak = 0
          /\ habits[1].bestStreak = 0

\* C13 witness: updateHabit has just finished on the starting date, and a habit
\* with a completion has current streak 1.
C13_Witness ==
    /\ TodayDay = HookFirstDay
    /\ result = [fn |-> "updateHabit", value |-> "done"]
    /\ \E i \in 1..Len(habits) :
          habits[i].completions # <<>> /\ habits[i].currentStreak = 1

\* C14: every date in a habit's completions is on or after its createdDate, and
\* a toggleHabitCompletionForDate call with date < createdDate makes no storage
\* call and leaves the habit list unchanged.
C14_NoCompletionBeforeCreation ==
    /\ [](\A i \in 1..Len(habits) :
            \A j \in 1..Len(habits[i].completions) :
               ~StrLess(habits[i].completions[j], habits[i].createdDate))
    /\ [][ ( /\ result' # result
             /\ result' = [fn |-> "toggleHabitCompletionForDate", value |-> "rejected"] )
           => UNCHANGED <<habits, store, requests, calls>> ]_vars

\* C14 witness: a call was refused while a habit holds a completion dated after
\* its createdDate (the date advanced before the toggle).
C14_Witness ==
    /\ result = [fn |-> "toggleHabitCompletionForDate", value |-> "rejected"]
    /\ \E i \in 1..Len(habits) :
          \E j \in 1..Len(habits[i].completions) :
             StrLess(habits[i].createdDate, habits[i].completions[j])

\* The sum of f[1] .. f[n]
RECURSIVE SumTo(_, _)
SumTo(f, n) == IF n = 0 THEN 0 ELSE f[n] + SumTo(f, n - 1)

\* C19: getHabitStats returns totalHabits = the number of habits,
\* totalCompletions = the sum of the completions lengths, averageCompletionRate
\* = round(mean of the monthly rates), longestStreak = the maximum bestStreak,
\* currentActiveStreaks = the number of habits with currentStreak > 0, and 0 in
\* every field for the empty list.
C19_HabitStatsIsReduction ==
    result.fn = "getHabitStats"
    => LET n       == Len(habits)
           lengths == [i \in 1..n |-> Len(habits[i].completions)]
           rates   == [i \in 1..n |-> getCompletionRate(habits[i], Month, now)]
           stats   == result.value
       IN  /\ stats.totalHabits = n
           /\ stats.totalCompletions = SumTo(lengths, n)
           /\ stats.averageCompletionRate
              = (IF n = 0 THEN 0 ELSE (2 * SumTo(rates, n) + n) \div (2 * n))
           /\ stats.longestStreak = SetMax({0} \cup { habits[i].bestStreak : i \in 1..n })
           /\ stats.currentActiveStreaks
              = Cardinality({ i \in 1..n : habits[i].currentStreak > 0 })

\* C19 witness: the statistics of two habits, one with a completion and rate
\* 100 and one with rate 0, were computed: the average is 50.
C19_Witness ==
    /\ result.fn = "getHabitStats"
    /\ result.value.totalHabits = 2
    /\ result.value.totalCompletions = 1
    /\ result.value.averageCompletionRate = 50
    /\ result.value.longestStreak = 1
    /\ result.value.currentActiveStreaks = 1

\* ------------------------------------------------------------------------
\* Further claims about calculateStreak and calculateBestStreak (under SpecStreak)
\* ------------------------------------------------------------------------
\* C15 (as stated): calculateStreak called with an explicit date returns the
\* same value whatever the wall-clock date of the call is: the value returned
\* equals the value of the same call made lag days after the given date, for
\* every lag drawn.
C15_StreakIndependentOfClock ==
    (StreakReturned /\ targetDate.some)
    => \A lag \in ClockLags \cup {0} :
          calculateStreak(habit.completions, habit.selectedDays, targetDate,
                          (AsOfDay + lag) * HoursPerDay + 9)
          = result.value

\* C16 (as stated): for a non-empty completion set and every schedule,
\* calculateBestStreak returns at least 1.
C16_BestAtLeastOne ==
    (BestStreakReturned /\ Len(habit.completions) > 0) => result.value >= 1

\* C16 (amended): for a completion set that holds at least one date scheduled
\* under the schedule (any date, for an empty or absent schedule),
\* calculateBestStreak returns at least 1.
C16_BestAtLeastOneWhenScheduled ==
    ( /\ BestStreakReturned
      /\ \E i \in 1..Len(habit.completions) :
            IsScheduled(DayOf(habit.completions[i]), habit.selectedDays) )
    => result.value >= 1

\* C16 witness: a non-empty schedule, one completion on a scheduled day and one
\* on an unscheduled day, and 1 was returned.
C16_Witness ==
    /\ BestStreakReturned
    /\ ~IsDaily(habit.selectedDays)
    /\ Len(habit.completions) = 2
    /\ \E i, j \in 1..2 :
          /\ IsScheduled(DayOf(habit.completions[i]), habit.selectedDays)
          /\ ~IsScheduled(DayOf(habit.completions[j]), habit.selectedDays)
    /\ result.value = 1

\* C17 (as stated): with exactly one completion d, calculateStreak returns 0 or
\* 1, and 1 only if d is today or yesterday.
C17_SingleCompletionTodayOrYesterday ==
    (StreakReturned /\ Len(habit.completions) = 1)
    => /\ result.value \in {0, 1}
       /\ result.value = 1
          => DayOf(habit.completions[1]) \in {AsOfDay, AsOfDay - 1}

\* C17 (amended): with exactly one completion d, calculateStreak returns 0 or 1,
\* and 1 only if d is today, or d is before today and no day strictly between d
\* and today is scheduled (so d is yesterday, for an empty or absent schedule).
C17_SingleCompletionLastScheduledDay ==
    (StreakReturned /\ Len(habit.completions) = 1)
    => LET d == DayOf(habit.completions[1])
       IN  /\ result.value \in {0, 1}
           /\ result.value = 1
              => \/ d = AsOfDay
                 \/ /\ d < AsOfDay
                    /\ \A e \in (d + 1)..(AsOfDay - 1) : ~IsScheduled(e, habit.selectedDays)

\* C17 witness: the only completion is dated three days before today, the days
\* between are unscheduled, and 1 was returned.
C17_Witness ==
    /\ StreakReturned
    /\ Len(habit.completions) = 1
    /\ DayOf(habit.completions[1]) = AsOfDay - 3
    /\ result.value = 1

\* ------------------------------------------------------------------------
\* Further claims about getCompletionRate and the calendar (under SpecRate)
\* ------------------------------------------------------------------------
\* C18: for a habit with no completions, getCompletionRate is 0 for every
\* createdDate and period, and calculateStreak and calculateBestStreak of the
\* empty list are 0 for every schedule and date.
C18_EmptyInputGivesZero ==
    (RateReturned /\ habit.completions = <<>>)
    => /\ result.value = 0
       /\ \A selectedDays \in Schedules :
             /\ calculateStreak(<<>>, selectedDays, Undefined, now) = 0
             /\ calculateStreak(<<>>, selectedDays, Some(habit.createdDate), now) = 0
             /\ calculateBestStreak(<<>>, selectedDays) = 0

\* C18 witness: a habit with no completions and two or more scheduled elapsed
\* days was rated 0.
C18_Witness ==
    /\ RateReturned
    /\ habit.completions = <<>>
    /\ Len(ScheduledElapsedOf(habit, period, now)) >= 2
    /\ result.value = 0

\* The instants getWeekStart is examined at: every day from 40 days before
\* today to tomorrow, at the hour of the clock
WeekStartArguments == { d * HoursPerDay + (now % HoursPerDay) :
                          d \in (TodayDay - 40)..(TodayDay + 1) }

\* C20: for every date d, getWeekStart(d) is a Monday, is on or before d and at
\* most 6 days before d; it is exactly 6 days before a Sunday d, and d itself
\* when d is a Monday.
C20_WeekStartIsMondayOnOrBefore ==
    (RateReturned /\ period = Week)
    => \A d \in WeekStartArguments :
          LET weekStart == getWeekStart(d)
          IN  /\ DayName(weekStart) = "monday"
              /\ weekStart <= d
              /\ d - weekStart <= 6 * HoursPerDay
              /\ DayName(d) = "sunday" => d - weekStart = 6 * HoursPerDay
              /\ DayName(d) = "monday" => weekStart = d

\* C20 witness: on a Sunday the weekly rate was computed over the week that
\* started six days earlier, in the previous month.
C20_Witness ==
    /\ RateReturned
    /\ period = Week
    /\ DayName(now) = "sunday"
    /\ getMonth(getWeekStart(now)) # getMonth(now)
    /\ Len(ScheduledElapsedOf(habit, period, now)) >= 2

\* ------------------------------------------------------------------------
\* C21: task lateness is derived, never trusted from the stored status
\* ------------------------------------------------------------------------
\* A task is late: it is not completed and its due date is before today
IsLate(task) == task.status # "completed" /\ StrLess(task.dueDate, getTodayString(now))

\* The tasks that loadTasks brought into the state (the rows held by the store
\* before the session); toggleTaskCompletion and updateTask replace them in place
LoadedTasks == LET Loaded(task) == task.id = 0 IN SelectSeq(tasks, Loaded)

\* C21: in every state reached by loadTasks, toggleTaskCompletion and
\* updateTask, the tasks that getTaskStats counts as overdue and the tasks that
\* TasksView shows in its overdue section are exactly the tasks that are not
\* completed and whose dueDate is before today.
C21_OverdueIffLate ==
    /\ getTaskStats(LoadedTasks).overdueTasks = Len(SelectSeq(LoadedTasks, IsLate))
    /\ organizeTasksBySections(LoadedTasks, now).overdue = SelectSeq(LoadedTasks, IsLate)

\* The overdue section of TasksView alone is the late tasks
OverdueSectionIsLate ==
    organizeTasksBySections(tasks, now).overdue = SelectSeq(tasks, IsLate)

\* A loaded task has been completed and reopened, and is late
LateTaskReopened ==
    /\ result = [fn |-> "toggleTaskCompletion", value |-> "done"]
    /\ \E i \in 1..Len(tasks) :
          tasks[i].id = 0 /\ tasks[i].status = "pending" /\ IsLate(tasks[i])

\* ------------------------------------------------------------------------
\* C22: concurrent toggles of the same habit and date
\* ------------------------------------------------------------------------
\* C22: under any interleaving of toggleHabitCompletion and
\* toggleHabitCompletionForDate calls for the same habit and date, the habit's
\* local completions never hold the same date twice, so the rate shown for it
\* never exceeds 100.
C22_TogglesNeverDuplicate ==
    \A i \in 1..Len(habits) :
        /\ NoDuplicates(habits[i].completions)
        /\ \A per \in {Week, Month} : getCompletionRate(habits[i], per, now) <= 100

\* The rate shown alone never exceeds 100
ShownRateAtMost100 ==
    \A i \in 1..Len(habits), per \in {Week, Month} :
        getCompletionRate(habits[i], per, now) <= 100

\* ------------------------------------------------------------------------
\* C23: loadHabits interleaved with toggles
\* ------------------------------------------------------------------------
\* The set of the elements of an array
Elements(arr) == { arr[i] : i \in 1..Len(arr) }

\* The habit's local completion set is the set of its completion rows
InSyncWithStore(h) ==
    Elements(h.completions) = Elements(CompletionsByHabit(store.completions, h.id))

\* C23: under any interleaving of loadHabits with toggleHabitCompletion and
\* toggleHabitCompletionForDate calls, once every call has finished each
\* habit's local completion set equals the set of completion rows held by the
\* store for that habit.
C23_LocalEqualsStoreWhenQuiet ==
    calls = {} => \A i \in 1..Len(habits) : InSyncWithStore(habits[i])

\* A reload has just finished and left the local set behind the store
ReloadLeftLocalBehind ==
    /\ calls = {}
    /\ result = [fn |-> "loadHabits", value |-> "done"]
    /\ \E i \in 1..Len(habits) : ~InSyncWithStore(habits[i])

\* ------------------------------------------------------------------------
\* Claims about calculateStreak run step by step (under SpecWalk, SpecWalkLive)
\* ------------------------------------------------------------------------
\* The step-by-step run returns what calculateStreak, taken as a function,
\* gives (compared on the short lists)
WalkReturnsCalculateStreak ==
    (pc = "done" /\ Len(habit.completions) <= Cardinality(WalkWindow))
    => result.value = calculateStreak(habit.completions, habit.selectedDays, targetDate, now)

RecentDays == { d \in DaySet(habit.completions) : TodayDay - d <= SafetyDays }

\* C25: with asOf equal to the current date, calculateStreak never counts a
\* completion dated more than 365 days before today, in the daily and in the
\* scheduled branch; so the streak returned is at most 366.
C25_NothingOlderThan365Counted ==
    (pc = "done" /\ AsOfDay = TodayDay)
    => /\ result.value <= Cardinality(RecentDays)
       /\ result.value <= SafetyDays + 1

\* The same for the scheduled branch alone
ScheduledNothingOlderThan365Counted ==
    (pc = "done" /\ AsOfDay = TodayDay /\ ~IsDaily(habit.selectedDays))
    => /\ result.value <= Cardinality(RecentDays)
       /\ result.value <= SafetyDays + 1

\* The scheduled branch has counted today and the 365 days before it
ScheduledCounts366 ==
    /\ pc = "done"
    /\ ~IsDaily(habit.selectedDays)
    /\ result.value = SafetyDays + 1

\* ------------------------------------------------------------------------
\* C26
\* ------------------------------------------------------------------------
\* An array with every repeat of an earlier element removed
RECURSIVE WithoutRepeats(_)
WithoutRepeats(arr) ==
    IF arr = <<>> THEN <<>>
    ELSE LET front == WithoutRepeats(SubSeq(arr, 1, Len(arr) - 1))
             last  == arr[Len(arr)]
         IN  IF Includes(front, last) THEN front ELSE Append(front, last)

\* C26: calculateStreak and calculateBestStreak treat completions as a set: the
\* result for a list that repeats a date is the result for the list without
\* the repeats, for every schedule
C26_RepeatsChangeNothing ==
    pc = "done" =>
        /\ result.fn = "calculateStreak" =>
             result.value = calculateStreak(WithoutRepeats(habit.completions),
                                            habit.selectedDays, targetDate, now)
        /\ result.fn = "calculateBestStreak" =>
             result.value = calculateBestStreak(WithoutRepeats(habit.completions),
                                                habit.selectedDays)

\* C26, the part that holds: under a non-empty schedule the current streak is
\* not changed by a repeated date
ScheduledStreakIgnoresRepeats ==
    (pc = "done" /\ result.fn = "calculateStreak" /\ ~IsDaily(habit.selectedDays)) =>
        result.value = calculateStreak(WithoutRepeats(habit.completions),
                                       habit.selectedDays, targetDate, now)

\* C26: a repeated date has lowered the daily current streak
RepeatLoweredDailyStreak ==
    /\ pc = "done"
    /\ result.fn = "calculateStreak"
    /\ IsDaily(habit.selectedDays)
    /\ result.value < calculateStreak(WithoutRepeats(habit.completions),
                                      habit.selectedDays, targetDate, now)

\* C26: a repeated date has changed the best streak of a daily habit
RepeatChangedDailyBestStreak ==
    /\ pc = "done"
    /\ result.fn = "calculateBestStreak"
    /\ IsDaily(habit.selectedDays)
    /\ result.value # calculateBestStreak(WithoutRepeats(habit.completions),
                                          habit.selectedDays)

\* C26: a repeated date has changed the best streak under a non-empty schedule
RepeatChangedScheduledBestStreak ==
    /\ pc = "done"
    /\ result.fn = "calculateBestStreak"
    /\ ~IsDaily(habit.selectedDays)
    /\ result.value # calculateBestStreak(WithoutRepeats(habit.completions),
                                          habit.selectedDays)

\* ------------------------------------------------------------------------
\* C27
\* ------------------------------------------------------------------------
\* The completions dated on or before the day lastDay, in their order
OnOrBefore(completions, lastDay) ==
    LET NotAfter(dateString) == DayOf(dateString) <= lastDay
    IN  SelectSeq(completions, NotAfter)

\* C27: calculateStreak as of the current date depends only on the completions
\* dated on or before today: a completion dated after today does not change
\* the result, for the daily and for every non-empty schedule
C27_FutureCompletionsChangeNothing ==
    (pc = "done" /\ result.fn = "calculateStreak" /\ AsOfDay = TodayDay) =>
        result.value = calculateStreak(OnOrBefore(habit.completions, TodayDay),
                                       habit.selectedDays, targetDate, now)

\* C27, the part that holds: under a non-empty schedule a completion dated
\* after today does not change the current streak
ScheduledStreakIgnoresFuture ==
    (/\ pc = "done"
     /\ result.fn = "calculateStreak"
     /\ AsOfDay = TodayDay
     /\ ~IsDaily(habit.selectedDays)) =>
        result.value = calculateStreak(OnOrBefore(habit.completions, TodayDay),
                                       habit.selectedDays, targetDate, now)

\* C27: a completion dated tomorrow has lowered the current streak of a daily
\* habit whose list holds no date twice
FutureCompletionLoweredDailyStreak ==
    /\ pc = "done"
    /\ result.fn = "calculateStreak"
    /\ AsOfDay = TodayDay
    /\ IsDaily(habit.selectedDays)
    /\ NoDuplicates(habit.completions)
    /\ Includes(habit.completions, CivilFromDays(TodayDay + 1))
    /\ result.value < calculateStreak(OnOrBefore(habit.completions, TodayDay),
                                      habit.selectedDays, targetDate, now)

\* C27: a streak was computed under a non-empty schedule from a list that
\* holds tomorrow, a scheduled day, and counted at least one day
ScheduledStreakWithFutureCompletion ==
    /\ pc = "done"
    /\ result.fn = "calculateStreak"
    /\ AsOfDay = TodayDay
    /\ ~IsDaily(habit.selectedDays)
    /\ Includes(habit.completions, CivilFromDays(TodayDay + 1))
    /\ Includes(habit.selectedDays.val, DayName((TodayDay + 1) * HoursPerDay))
    /\ result.value >= 1

\* ------------------------------------------------------------------------
\* C28
\* ------------------------------------------------------------------------
\* The two toggles of the hook
Toggles == {"toggleHabitCompletion", "toggleHabitCompletionForDate"}

\* C28: when the storage call of toggleHabitCompletion or of
\* toggleHabitCompletionForDate has failed, the step that ends the call leaves
\* the habit list and the store as they are, sets the hook's error to a
\* non-null message, does not rethrow, and leaves no call behind, so that the
\* same toggle can be made again
C28_FailedToggleLeavesHabits ==
    [][\A c \in calls :
          (c.op \in Toggles /\ c.stage = "failed" /\ c \notin calls') =>
             /\ habits' = habits
             /\ store' = store
             /\ error' # NoError
             /\ result' = [fn |-> c.op, value |-> "failed"]
             /\ calls' = calls \ {c}]_vars

\* C28: a toggle of a habit that has completions has just ended after its
\* storage call failed
C28_Witness ==
    /\ result.fn \in Toggles
    /\ result.value = "failed"
    /\ error # NoError
    /\ \E i \in 1..Len(habits) : habits[i].currentStreak >= 1

\* C28: after a toggle of the habit failed, a toggle of the habit has gone
\* through (the two are the only storage calls made so far, and no load has
\* cleared the error in between)
ToggleSucceededAfterFailure ==
    /\ requests = 2
    /\ calls = {}
    /\ error = "Failed to update habit"
    /\ result.fn \in Toggles
    /\ result.value = "done"
    /\ Len(habits) = 1
    /\ habits[1].completions # <<>>

\* ------------------------------------------------------------------------
\* C30
\* ------------------------------------------------------------------------
\* The habit's currentStreak field, which HabitCard shows and getHabitStats
\* counts, is calculateStreak of its completions as of the current date
ShownStreakIsCurrent(h) ==
    h.currentStreak = calculateStreak(h.completions, h.selectedDays, Undefined, now)

\* C30: the currentStreak shown for a habit always equals
\* calculateStreak(completions, selectedDays) as of the current local date,
\* also after the local date has advanced with no toggle, update or reload
C30_ShownStreakIsCurrent ==
    \A i \in 1..Len(habits) : ShownStreakIsCurrent(habits[i])

\* C30, the part that holds: the currentStreak shown is current as long as the
\* local date is the one the habits were loaded on
ShownStreakIsCurrentOnTheFirstDay ==
    TodayDay = HookFirstDay => \A i \in 1..Len(habits) : ShownStreakIsCurrent(habits[i])

\* C30: the local date has just advanced and a streak that ended yesterday is
\* still shown as running
EndedStreakStillShown ==
    /\ result = [fn |-> "tick", value |-> "done"]
    /\ \E i \in 1..Len(habits) :
          /\ habits[i].currentStreak >= 1
          /\ calculateStreak(habits[i].completions, habits[i].selectedDays,
                             Undefined, now) = 0
    /\ getHabitStats(habits, now).currentActiveStreaks >= 1

\* ------------------------------------------------------------------------
\* C29
\* ------------------------------------------------------------------------
\* Both toggles of the caller have finished and both storage calls succeeded
BothTogglesDone == pc = "second toggle" /\ calls = {} /\ error = NoError

\* The habit now has the completion set and the streaks it had before the
\* first toggle
Restored ==
    LET h == habits[FindHabit(habits, habit.id)]
    IN  /\ Elements(h.completions) = Elements(habit.completions)
        /\ h.currentStreak = habit.currentStreak
        /\ h.bestStreak = habit.bestStreak

\* C29: toggling the same habit and date twice in sequence, both storage calls
\* succeeding, restores the habit's completion set, its currentStreak and its
\* bestStreak to their values before the first toggle
C29_TwoTogglesRestore ==
    BothTogglesDone => Restored

\* C29, the part that holds: the completion set is restored
TwoTogglesRestoreCompletionSet ==
    BothTogglesDone =>
        Elements(habits[FindHabit(habits, habit.id)].completions)
          = Elements(habit.completions)

\* C29, the part that holds: everything is restored when the local date has not
\* advanced since the habits were loaded
TwoTogglesRestoreOnTheFirstDay ==
    (BothTogglesDone /\ TodayDay = HookFirstDay) => Restored

\* C29: two toggles of today have left a shown streak other than the one shown
\* before them, which was not the streak as of the current date
TwoTogglesChangedShownStreak ==
    /\ BothTogglesDone
    /\ result.fn = "toggleHabitCompletion"
    /\ habits[FindHabit(habits, habit.id)].currentStreak # habit.currentStreak
    /\ ~ShownStreakIsCurrent(habit)

====
